---- MODULE Spec2Model ----
(***************************************************************************)
(* Model of the prompt loader, the clean_room prompt composer and the      *)
(* generation calls of ImageGenerator (src/ai/image_generator.py).         *)
(*                                                                         *)
(* Python strings are TLA+ strings and f-strings are \o.  An Optional      *)
(* value is None (<<>>) or Some(v) (<<v>>).  A dict is a function on its   *)
(* keys, so `"image_path" \in DOMAIN result` is `"image_path" in result`.  *)
(***************************************************************************)
EXTENDS Integers, Sequences, FiniteSets, TLC

VARIABLES
    files,      \* resources/prompts: template name -> None | Some(raw content)
    cache,      \* PromptLoader._cache: dict name -> stripped content
    pc,         \* position of the generation call: idle, primary, fallback, done
    op,         \* arguments of the generation call in progress
    prompt,     \* local `prompt` of the call
    image,      \* loaded input image(s) of the call, in the order they are sent
    result,     \* local `result` dict (None before the primary response)
    k,          \* number of the next fallback strategy
    calls,      \* model requests made by this call, in order: their `contents`
    written,    \* writes to the output directory made by this call, in order
    ret,        \* the returned dict (None while the call runs)
    caches,     \* _cache of each PromptLoader instance used directly
    last,       \* the last loader or composer operation and its outcome
    hist,       \* history of the loads made through each loader
    tw,         \* the generate_with_template call in progress (None if none)
    batch,      \* the batch_generate call in progress (None if none)
    resources_dir,  \* whether the directory PromptLoader.resources_dir exists
    threads     \* the loader calls running concurrently: thread -> its position

\* the variables of the generation calls, and the others
genVars == <<files, cache, pc, op, prompt, image, result, k, calls, written, ret>>
auxVars == <<caches, last, hist, tw, batch, resources_dir, threads>>
vars == <<files, cache, pc, op, prompt, image, result, k, calls, written, ret,
          caches, last, hist, tw, batch, resources_dir, threads>>

\* no loader call runs in a thread of its own
NoThreads == << >>

\* ------------------------------------------------------------------ bounds
\* longest `parts` list of a model response
MaxParts == 2

\* ------------------------------------------------------------ basic values
None == <<>>
Some(v) == <<v>>
Val(o) == o[1]

\* Python truthiness of an Optional[str]: None and "" are falsy
Truthy(o) == o # None /\ Val(o) # ""

\* `a or b` for an Optional[str] a and a str b
OrElse(a, b) == IF Truthy(a) THEN Val(a) ELSE b

\* a dict with one more key set (d[key] = v)
SetKey(d, key, v) == (key :> v) @@ d

MODEL_NAME == "gemini-2.5-flash-image-preview"

\* ------------------------------------------------------------ prompt loader
\* A template is a sequence of tokens: whitespace, literal text, {placeholder}
Ws(s) == [t |-> "ws", v |-> s]
Lit(s) == [t |-> "lit", v |-> s]
Ph(s) == [t |-> "ph", v |-> s]

TemplateNames == {"clean_room"}

\* raw contents a clean_room.txt may have
CleanRoomFiles ==
    { <<Ws("\n"), Lit("Task: "), Ph("remove_instruction"), Ph("maintain_layout"), Ws("\n")>>,
      <<Ph("remove_instruction"), Lit(" in the "), Ph("room")>> }

RECURSIVE LStrip(_)
LStrip(s) == IF s # <<>> /\ Head(s).t = "ws" THEN LStrip(Tail(s)) ELSE s

RECURSIVE RStrip(_)
RStrip(s) ==
    IF s # <<>> /\ s[Len(s)].t = "ws" THEN RStrip(SubSeq(s, 1, Len(s) - 1)) ELSE s

\* str.strip()
Strip(s) == RStrip(LStrip(s))

\* mutant: the content read is returned but never stored
LoadPromptNoStore(c, name) ==
    IF name \in DOMAIN c
    THEN [raised |-> FALSE, error |-> "", value |-> c[name], cache |-> c,
          read |-> FALSE]
    ELSE IF files[name] = None
    THEN [raised |-> TRUE, error |-> "Prompt file not found: " \o name \o ".txt",
          value |-> <<>>, cache |-> c, read |-> FALSE]
    ELSE [raised |-> FALSE, error |-> "", value |-> Strip(Val(files[name])),
          cache |-> c, read |-> TRUE]

\* mutant: a missing file is cached as an empty template
LoadPromptCachesMissing(c, name) ==
    IF name \in DOMAIN c
    THEN [raised |-> FALSE, error |-> "", value |-> c[name], cache |-> c,
          read |-> FALSE]
    ELSE IF files[name] = None
    THEN [raised |-> TRUE, error |-> "Prompt file not found: " \o name \o ".txt",
          value |-> <<>>, cache |-> SetKey(c, name, <<>>), read |-> FALSE]
    ELSE LET content == Strip(Val(files[name]))
         IN [raised |-> FALSE, error |-> "", value |-> content,
             cache |-> SetKey(c, name, content), read |-> TRUE]

\* mutant: the file is read on every call, the cache only written
LoadPromptAlwaysReads(c, name) ==
    IF files[name] = None
    THEN [raised |-> TRUE, error |-> "Prompt file not found: " \o name \o ".txt",
          value |-> <<>>, cache |-> c, read |-> FALSE]
    ELSE LET content == Strip(Val(files[name]))
         IN [raised |-> FALSE, error |-> "", value |-> content,
             cache |-> SetKey(c, name, content), read |-> TRUE]

\* PromptLoader.load_prompt: [raised, error, value, cache]; read tells
\* whether the file was opened and read
LoadPrompt(c, name) ==
    IF name \in DOMAIN c
    THEN [raised |-> FALSE, error |-> "", value |-> c[name], cache |-> c,
          read |-> FALSE]
    ELSE IF files[name] = None
    THEN [raised |-> TRUE, error |-> "Prompt file not found: " \o name \o ".txt",
          value |-> <<>>, cache |-> c, read |-> FALSE]
    ELSE LET content == Strip(Val(files[name]))
         IN [raised |-> FALSE, error |-> "", value |-> content,
             cache |-> SetKey(c, name, content), read |-> TRUE]

\* the orders in which a directory listing may give the names in S
Orders(S) ==
    { o \in [1..Cardinality(S) -> S] : \A i, j \in 1..Cardinality(S) : o[i] = o[j] => i = j }

\* mutant: the directory is listed without a test that it exists
ListAvailablePromptsNoCheck(c) ==
    IF ~resources_dir
    THEN [raised |-> TRUE, error |-> "No such file or directory", values |-> {<<>>},
          cache |-> c]
    ELSE [raised |-> FALSE, error |-> "",
          values |-> Orders({ n \in DOMAIN files : files[n] # None }), cache |-> c]

\* PromptLoader.list_available_prompts: values are the lists it may return,
\* one for each order in which glob may yield the files
ListAvailablePrompts(c) ==
    IF ~resources_dir
    THEN [raised |-> FALSE, error |-> "", values |-> {<<>>}, cache |-> c]
    ELSE [raised |-> FALSE, error |-> "",
          values |-> Orders({ n \in DOMAIN files : files[n] # None }), cache |-> c]

\* mutant: reload_cache leaves the entries in place
ReloadCacheKeeps(c) == c

\* PromptLoader.reload_cache: self._cache.clear()
ReloadCache(c) == << >>

\* the placeholders a template references
Placeholders(tpl) == { tpl[i].v : i \in { j \in 1..Len(tpl) : tpl[j].t = "ph" } }

\* str.format(**kw) on a template whose placeholders are all keys of kw
RECURSIVE Render(_, _)
Render(tpl, kw) ==
    IF tpl = <<>> THEN ""
    ELSE (IF Head(tpl).t = "ph" THEN kw[Head(tpl).v] ELSE Head(tpl).v)
         \o Render(Tail(tpl), kw)

\* mutant: a None value is formatted as Python prints it
FormatPromptNoneAsText(c, name, kwargs) ==
    LET l == LoadPrompt(c, name)
        formatted_kwargs ==
            [key \in DOMAIN kwargs |->
                IF kwargs[key] # None THEN Val(kwargs[key]) ELSE "None"]
    IN IF l.raised THEN [raised |-> TRUE, error |-> l.error, value |-> "", cache |-> l.cache]
       ELSE IF Placeholders(l.value) \subseteq DOMAIN formatted_kwargs
       THEN [raised |-> FALSE, error |-> "",
             value |-> Render(l.value, formatted_kwargs), cache |-> l.cache]
       ELSE [raised |-> TRUE,
             error |-> "Missing required parameter for prompt '" \o name \o "'",
             value |-> "", cache |-> l.cache]

\* mutant: a key the template does not reference is rejected too
FormatPromptStrict(c, name, kwargs) ==
    LET l == LoadPrompt(c, name)
        formatted_kwargs ==
            [key \in DOMAIN kwargs |->
                IF kwargs[key] # None THEN Val(kwargs[key]) ELSE ""]
    IN IF l.raised THEN [raised |-> TRUE, error |-> l.error, value |-> "", cache |-> l.cache]
       ELSE IF Placeholders(l.value) = DOMAIN formatted_kwargs
       THEN [raised |-> FALSE, error |-> "",
             value |-> Render(l.value, formatted_kwargs), cache |-> l.cache]
       ELSE [raised |-> TRUE,
             error |-> "Missing required parameter for prompt '" \o name \o "'",
             value |-> "", cache |-> l.cache]

\* PromptLoader.format_prompt; kwargs maps each key to an Optional[str]
FormatPrompt(c, name, kwargs) ==
    LET l == LoadPrompt(c, name)
        formatted_kwargs ==
            [key \in DOMAIN kwargs |->
                IF kwargs[key] # None THEN Val(kwargs[key]) ELSE ""]
    IN IF l.raised THEN [raised |-> TRUE, error |-> l.error, value |-> "", cache |-> l.cache]
       ELSE IF Placeholders(l.value) \subseteq DOMAIN formatted_kwargs
       THEN [raised |-> FALSE, error |-> "",
             value |-> Render(l.value, formatted_kwargs), cache |-> l.cache]
       ELSE [raised |-> TRUE,
             error |-> "Missing required parameter for prompt '" \o name \o "'",
             value |-> "", cache |-> l.cache]

\* mutant: the layout clause is appended whatever maintain_layout is
CleanRoomKwargsAlwaysLayout(specific_objects, maintain_layout) ==
    [remove_instruction |->
        Some(IF Truthy(specific_objects)
             THEN "Remove the " \o Val(specific_objects)
             ELSE "Clean up this room by removing all clutter and unnecessary objects"),
     maintain_layout |->
        Some(" while maintaining the original room layout and structure")]

\* PromptTemplates.clean_room: the keyword arguments it passes to format_prompt
CleanRoomKwargs(specific_objects, maintain_layout) ==
    LET remove_instruction ==
            IF Truthy(specific_objects)
            THEN "Remove the " \o Val(specific_objects)
            ELSE "Clean up this room by removing all clutter and unnecessary objects"
        maintain_text ==
            IF maintain_layout
            THEN " while maintaining the original room layout and structure"
            ELSE ""
    IN [remove_instruction |-> Some(remove_instruction),
        maintain_layout |-> Some(maintain_text)]

\* PromptTemplates.clean_room
CleanRoom(c, specific_objects, maintain_layout) ==
    FormatPrompt(c, "clean_room", CleanRoomKwargs(specific_objects, maintain_layout))

\* str(i) for the step numbers reached
Str(i) == IF i < 10 THEN SubSeq("0123456789", i + 1, i + 1)
          ELSE SubSeq("0123456789", (i \div 10) + 1, (i \div 10) + 1)
                   \o SubSeq("0123456789", (i % 10) + 1, (i % 10) + 1)

\* mutant: the steps are numbered from 0
StepInstructionsFromZero(steps) ==
    [i \in 1..Len(steps) |-> "Step " \o Str(i - 1) \o ": " \o steps[i]]

\* the loop of step_by_step_instructions: f"Step {i}: {step}" for
\* i, step in enumerate(steps, 1)
StepInstructions(steps) ==
    [i \in 1..Len(steps) |-> "Step " \o Str(i) \o ": " \o steps[i]]

\* " ".join(step_instructions)
RECURSIVE JoinSpace(_)
JoinSpace(items) ==
    IF items = <<>> THEN ""
    ELSE IF Len(items) = 1 THEN Head(items)
    ELSE Head(items) \o " " \o JoinSpace(Tail(items))

\* PromptTemplates.step_by_step_instructions: the keyword arguments it
\* passes to format_prompt
StepByStepKwargs(steps) == [steps |-> Some(JoinSpace(StepInstructions(steps)))]

\* PromptTemplates.step_by_step_instructions
StepByStepInstructions(c, steps) ==
    FormatPrompt(c, "step_by_step", StepByStepKwargs(steps))

\* members of ImageStyle and CameraAngle: an Enum member has a name and a value
PHOTOREALISTIC == [name |-> "PHOTOREALISTIC", value |-> "photorealistic"]
ANIME == [name |-> "ANIME", value |-> "anime"]
CLOSE_UP == [name |-> "CLOSE_UP", value |-> "close-up shot"]

\* mutant: an absent context is passed on as the empty string
TextToImageKwargsBlankContext(subject, style, context, camera_angle, lighting, composition, negative_prompt) ==
    [context |-> Some(OrElse(context, "")),
     subject |-> Some(subject),
     style |-> Some(style.value),
     angle |-> Some(IF camera_angle # None
                    THEN ", using " \o Val(camera_angle).value ELSE ""),
     lighting |-> Some(IF Truthy(lighting) THEN ", with " \o Val(lighting) ELSE ""),
     composition |-> Some(IF Truthy(composition)
                          THEN ", and " \o Val(composition) ELSE ""),
     negative_prompt |-> Some(IF Truthy(negative_prompt)
                              THEN ", ensuring " \o Val(negative_prompt) ELSE "")]

\* mutant: the angle clause names the Enum member instead of its value
TextToImageKwargsAngleName(subject, style, context, camera_angle, lighting, composition, negative_prompt) ==
    [context |-> Some(OrElse(context, "image")),
     subject |-> Some(subject),
     style |-> Some(style.value),
     angle |-> Some(IF camera_angle # None
                    THEN ", using " \o Val(camera_angle).name ELSE ""),
     lighting |-> Some(IF Truthy(lighting) THEN ", with " \o Val(lighting) ELSE ""),
     composition |-> Some(IF Truthy(composition)
                          THEN ", and " \o Val(composition) ELSE ""),
     negative_prompt |-> Some(IF Truthy(negative_prompt)
                              THEN ", ensuring " \o Val(negative_prompt) ELSE "")]

\* PromptTemplates.text_to_image: the keyword arguments it passes to
\* format_prompt (an Enum member is always truthy)
TextToImageKwargs(subject, style, context, camera_angle, lighting, composition, negative_prompt) ==
    [context |-> Some(OrElse(context, "image")),
     subject |-> Some(subject),
     style |-> Some(style.value),
     angle |-> Some(IF camera_angle # None
                    THEN ", using " \o Val(camera_angle).value ELSE ""),
     lighting |-> Some(IF Truthy(lighting) THEN ", with " \o Val(lighting) ELSE ""),
     composition |-> Some(IF Truthy(composition)
                          THEN ", and " \o Val(composition) ELSE ""),
     negative_prompt |-> Some(IF Truthy(negative_prompt)
                              THEN ", ensuring " \o Val(negative_prompt) ELSE "")]

\* PromptTemplates.text_to_image
TextToImage(c, subject, style, context, camera_angle, lighting, composition, negative_prompt) ==
    FormatPrompt(c, "text_to_image",
                 TextToImageKwargs(subject, style, context, camera_angle,
                                   lighting, composition, negative_prompt))

\* PromptTemplates.inpainting
Inpainting(c, base_image_description, mask_area, replacement_content, style_consistency) ==
    FormatPrompt(c, "inpainting",
                 [base_image_description |-> Some(base_image_description),
                  mask_area |-> Some(mask_area),
                  replacement_content |-> Some(replacement_content),
                  style_consistency |->
                      Some(IF style_consistency
                           THEN " while maintaining visual consistency and style"
                           ELSE "")])

\* PromptTemplates.style_transfer
StyleTransfer(c, source_image_description, target_style, preserve_subject) ==
    FormatPrompt(c, "style_transfer",
                 [source_image_description |-> Some(source_image_description),
                  target_style |-> Some(target_style),
                  preserve_subject |->
                      Some(IF preserve_subject
                           THEN " while preserving the main subject and composition"
                           ELSE "")])

\* ", ".join(images)
RECURSIVE Join(_)
Join(images) ==
    IF images = <<>> THEN ""
    ELSE IF Len(images) = 1 THEN Head(images)
    ELSE Head(images) \o ", " \o Join(Tail(images))

\* PromptTemplates.multi_image_composition
MultiImageComposition(c, images, composition_goal, blending_style) ==
    FormatPrompt(c, "multi_image_composition",
                 [images |-> Some(Join(images)),
                  composition_goal |-> Some(composition_goal),
                  blending_style |-> Some(blending_style)])

\* PromptTemplates.text_rendering
TextRendering(c, text_content, design_style, context) ==
    FormatPrompt(c, "text_rendering",
                 [text_content |-> Some(text_content),
                  design_style |-> Some(design_style),
                  context |-> Some(context)])

\* s contains sub (Python: sub in s)
Contains(s, sub) ==
    \E i \in 1..(Len(s) - Len(sub) + 1) : SubSeq(s, i, i + Len(sub) - 1) = sub

\* -------------------------------------------------------- loader instances
\* PromptLoader instances used directly: each has its own _cache
Loaders == {"loader-1", "loader-2"}

\* the loader of one composer
TheLoader == "loader-1"

\* the templates these loaders are asked for
LoaderNames == {"clean_room", "text_to_image"}

\* raw contents a text_to_image.txt may have
TextToImageFiles ==
    { <<Lit("Create a "), Ph("style"), Lit(" "), Ph("context"), Lit(" of "),
        Ph("subject"), Ph("angle"), Ph("lighting"), Ph("composition"),
        Ph("negative_prompt"), Lit("."), Ws("\n")>> }

\* contents a template file may be given
FileContents(name) ==
    IF name = "clean_room" THEN CleanRoomFiles ELSE TextToImageFiles

\* no load has been made through any loader
HistInit ==
    [returned |-> [l \in Loaders |-> [n \in LoaderNames |-> None]],
     warm |-> {},
     warmBy |-> [l \in Loaders |-> {}],
     failed |-> [l \in Loaders |-> {}]]

\* ------------------------------------------------------- generation calls
T2I == "text_to_image"
EDIT == "image_editing"
CLEAN == "clean_image"
COMPOSE == "multi_image_composition"

\* one item of a request's `contents` list
Text(s) == [t |-> "text", v |-> s]
Img(id) == [t |-> "image", v |-> id]

\* values a caller may pass as an input image: a path (that opens or not),
\* a PIL image, or a value of another type
InputImages ==
    { [type |-> "path", v |-> "room.jpg", openable |-> TRUE],
      [type |-> "path", v |-> "missing.jpg", openable |-> FALSE],
      [type |-> "pil", v |-> "pil-image", openable |-> TRUE],
      [type |-> "other", v |-> "42", openable |-> FALSE] }

\* the isinstance ladder that loads one input image
LoadImage(input_image) ==
    IF input_image.type = "path"
    THEN IF input_image.openable
         THEN [raised |-> FALSE, error |-> "", value |-> Img(input_image.v)]
         ELSE [raised |-> TRUE, error |-> "No such file: " \o input_image.v,
               value |-> Img("")]
    ELSE IF input_image.type = "pil"
    THEN [raised |-> FALSE, error |-> "", value |-> Img(input_image.v)]
    ELSE [raised |-> TRUE, error |-> "Invalid input image type", value |-> Img("")]

\* the loop that loads the input images of a composition call, in order
RECURSIVE LoadImages(_, _)
LoadImages(input_images, loaded) ==
    IF input_images = <<>>
    THEN [raised |-> FALSE, error |-> "", value |-> loaded]
    ELSE LET l == LoadImage(Head(input_images))
         IN IF l.raised
            THEN [raised |-> TRUE,
                  error |-> IF Head(input_images).type = "other"
                            THEN "Invalid input image type at index"
                            ELSE l.error,
                  value |-> loaded]
            ELSE LoadImages(Tail(input_images), Append(loaded, l.value))

\* the `filename` a flow saves under when output_filename is falsy
DefaultFilename(flow) ==
    CASE flow = T2I -> "generated_text_to_image"
      [] flow = EDIT -> "generated_image_editing"
      [] flow = CLEAN -> "cleaned_image"
      [] flow = COMPOSE -> "composed_image"

\* mutant: the fourth strategy copied into every flow
StrategiesAllFour(flow) == <<"original", "explicit", "simple", "force">>

\* mutant: the fourth strategy missing from every flow
StrategiesNoForce(flow) == <<"original", "explicit", "simple">>

\* the fallback strategies of a flow, in the order the code tries them
Strategies(flow) ==
    IF flow = T2I
    THEN <<"original", "explicit", "simple", "force">>
    ELSE <<"original", "explicit", "simple">>

\* mutant: the explicit and the simple prompt exchanged
StrategyPromptSwapped(strategy, p) ==
    CASE strategy = "original" -> p
      [] strategy = "explicit" -> "Create an image"
      [] strategy = "simple" -> "Generate a high-quality image: " \o p
      [] strategy = "force" ->
            "Generate an image of: " \o p \o ". Create a visual representation."

\* the prompt a strategy sends
StrategyPrompt(strategy, p) ==
    CASE strategy = "original" -> p
      [] strategy = "explicit" -> "Generate a high-quality image: " \o p
      [] strategy = "simple" -> "Create an image"
      [] strategy = "force" ->
            "Generate an image of: " \o p \o ". Create a visual representation."

\* mutant: the fallback requests keep the input images
RequestContentsKeepImages(flow, p, imgs, n) ==
    LET text == IF n = 0 THEN p ELSE StrategyPrompt(Strategies(flow)[n], p)
    IN IF flow = COMPOSE THEN imgs \o <<Text(text)>> ELSE <<Text(text)>> \o imgs

\* `contents` of request n of a call: 0 is the primary, n >= 1 strategy n
RequestContents(flow, p, imgs, n) ==
    IF n = 0
    THEN CASE flow = T2I -> <<Text(p)>>
           [] flow \in {EDIT, CLEAN} -> <<Text(p)>> \o imgs
           [] flow = COMPOSE -> imgs \o <<Text(p)>>
    ELSE <<Text(StrategyPrompt(Strategies(flow)[n], p))>>

\* mutant: the result's metadata lacks the prompt
NewResultNoPrompt(flow, p, n_images) ==
    [success |-> TRUE, text_content |-> None, image_data |-> None,
     metadata |-> [model |-> MODEL_NAME, type |-> flow]]

\* the result dict built after the primary request has returned
NewResult(flow, p, n_images) ==
    LET metadata == [model |-> MODEL_NAME, prompt |-> p, type |-> flow]
    IN [success |-> TRUE, text_content |-> None, image_data |-> None,
        metadata |-> IF flow = COMPOSE
                     THEN SetKey(metadata, "input_images_count", n_images)
                     ELSE metadata]

\* mutant: no outer `except`, the exception leaves the operation
FailurePropagates(flow, e) == [raised |-> e]

\* mutant: the outer `except` reports the error in a successful result
FailureReportsSuccess(flow, e) ==
    [success |-> TRUE, error |-> e, metadata |-> [type |-> flow]]

\* the dict the outer `except Exception as e` returns
Failure(flow, e) ==
    [success |-> FALSE, error |-> e, metadata |-> [type |-> flow]]

\* payloads Image.open cannot decode
Undecodable == {"not-an-image"}

\* mutant: every saved image gets a path of its own
SaveImageNumbered(w, image_data, filename) ==
    LET image_path == "outputs/" \o filename \o "_" \o Str(Len(w) + 1) \o ".png"
    IN IF image_data \notin Undecodable
       THEN [raised |-> FALSE, error |-> "", path |-> image_path,
             written |-> Append(w, [path |-> image_path, data |-> image_data])]
       ELSE [raised |-> TRUE, error |-> "cannot identify image file",
             path |-> image_path, written |-> w]

\* ImageGenerator._save_image: Image.open raises on a payload that is no
\* image, before anything is written
SaveImage(w, image_data, filename) ==
    LET image_path == "outputs/" \o filename \o ".png"
    IN IF image_data \notin Undecodable
       THEN [raised |-> FALSE, error |-> "", path |-> image_path,
             written |-> Append(w, [path |-> image_path, data |-> image_data])]
       ELSE [raised |-> TRUE, error |-> "cannot identify image file",
             path |-> image_path, written |-> w]

\* the loop over the parts of the primary response (no break)
RECURSIVE PrimaryParts(_, _, _, _)
PrimaryParts(res, w, parts, o) ==
    IF parts = <<>>
    THEN [raised |-> FALSE, error |-> "", result |-> res, written |-> w]
    ELSE LET part == Head(parts)
             r1 == IF part.text # None
                   THEN SetKey(res, "text_content", part.text)
                   ELSE res
         IN IF part.inline_data = None
            THEN PrimaryParts(r1, w, Tail(parts), o)
            ELSE LET r2 == SetKey(r1, "image_data", part.inline_data)
                     s == SaveImage(w, Val(part.inline_data),
                                    OrElse(o.output_filename, DefaultFilename(o.flow)))
                 IN IF ~o.save_image
                    THEN PrimaryParts(r2, w, Tail(parts), o)
                    ELSE IF s.raised
                    THEN [raised |-> TRUE, error |-> s.error, result |-> r2,
                          written |-> w]
                    ELSE PrimaryParts(SetKey(r2, "image_path", s.path), s.written,
                                      Tail(parts), o)

\* the loop over the parts of a fallback response: it breaks at the first
\* image part, and an exception of _save_image is caught by the strategy's
\* own `except`, after image_data has been set (save_raised records it)
RECURSIVE FallbackParts(_, _, _, _)
FallbackParts(res, w, parts, o) ==
    IF parts = <<>>
    THEN [result |-> res, written |-> w, save_raised |-> FALSE]
    ELSE IF Head(parts).inline_data = None
    THEN FallbackParts(res, w, Tail(parts), o)
    ELSE LET r2 == SetKey(res, "image_data", Head(parts).inline_data)
             s == SaveImage(w, Val(Head(parts).inline_data),
                            OrElse(o.output_filename, DefaultFilename(o.flow)))
         IN IF ~o.save_image
            THEN [result |-> r2, written |-> w, save_raised |-> FALSE]
            ELSE IF s.raised
            THEN [result |-> r2, written |-> w, save_raised |-> TRUE]
            ELSE [result |-> SetKey(r2, "image_path", s.path),
                  written |-> s.written, save_raised |-> FALSE]

\* mutant: the next strategy is tried whether or not an image was obtained
TriesNextIgnoringImage(flow, res, n) == n < Len(Strategies(flow))

\* after strategy n: is another strategy tried (`if result["image_data"] is None`)?
TriesNext(flow, res, n) ==
    res.image_data = None /\ n < Len(Strategies(flow))

\* --------------------------------------------------- the model's responses
Payloads == {"png-1", "png-2"} \cup Undecodable

\* a part carries text, an inline payload, both or neither
Parts ==
    { [text |-> None, inline_data |-> None],
      [text |-> Some("Here is your image."), inline_data |-> None],
      [text |-> Some("Here is your image."), inline_data |-> Some("png-1")] }
    \cup { [text |-> None, inline_data |-> Some(d)] : d \in Payloads }

SeqsUpTo(S, n) == UNION { [1..m -> S] : m \in 0..n }

\* generate_content raises, or returns a response whose
\* candidates[0].content.parts cannot be read, or one with a parts list
Responses ==
    { [kind |-> "raise", error |-> "API Error", parts |-> <<>>],
      [kind |-> "unreadable", error |-> "list index out of range", parts |-> <<>>] }
    \cup { [kind |-> "parts", error |-> "", parts |-> ps] : ps \in SeqsUpTo(Parts, MaxParts) }

\* the image payloads of a response, in the order of its parts
RECURSIVE ImagesOf(_)
ImagesOf(parts) ==
    IF parts = <<>> THEN <<>>
    ELSE Head(parts).inline_data \o ImagesOf(Tail(parts))

\* mutant: an exception of the primary request is swallowed like a fallback's
PrimaryResponseSwallowsRaise(flow, p, imgs, w, resp, o) ==
    IF resp.kind # "parts"
    THEN [raised |-> FALSE, error |-> "", result |-> NewResult(flow, p, Len(imgs)),
          written |-> w]
    ELSE PrimaryParts(NewResult(flow, p, Len(imgs)), w, resp.parts, o)

\* the handling of the primary response, the same in the four flows: an
\* exception of the request or of reading candidates[0].content.parts
\* reaches the outer `except` (raised), as one of _save_image does
PrimaryResponse(flow, p, imgs, w, resp, o) ==
    IF resp.kind # "parts"
    THEN [raised |-> TRUE, error |-> resp.error, result |-> NewResult(flow, p, Len(imgs)),
          written |-> w]
    ELSE PrimaryParts(NewResult(flow, p, Len(imgs)), w, resp.parts, o)

\* mutant: a strategy without its own try/except
FallbackResponseUncaught(res, w, resp, o) ==
    IF resp.kind # "parts"
    THEN [raised |-> TRUE, error |-> resp.error, result |-> res, written |-> w,
          save_raised |-> FALSE]
    ELSE LET f == FallbackParts(res, w, resp.parts, o)
         IN [raised |-> f.save_raised, error |-> "cannot identify image file",
             result |-> f.result, written |-> f.written,
             save_raised |-> f.save_raised]

\* mutant: a strategy records the text of the first part of its response
FallbackResponseRecordsText(res, w, resp, o) ==
    IF resp.kind # "parts"
    THEN [raised |-> FALSE, error |-> "", result |-> res, written |-> w,
          save_raised |-> FALSE]
    ELSE LET f == FallbackParts(res, w, resp.parts, o)
             t == IF resp.parts # <<>> /\ Head(resp.parts).text # None
                  THEN SetKey(f.result, "text_content", Head(resp.parts).text)
                  ELSE f.result
         IN [raised |-> FALSE, error |-> "", result |-> t,
             written |-> f.written, save_raised |-> f.save_raised]

\* one strategy's try/except: every exception of the request, of reading
\* the response and of _save_image is caught, so raised is always FALSE
FallbackResponse(res, w, resp, o) ==
    IF resp.kind # "parts"
    THEN [raised |-> FALSE, error |-> "", result |-> res, written |-> w,
          save_raised |-> FALSE]
    ELSE LET f == FallbackParts(res, w, resp.parts, o)
         IN [raised |-> FALSE, error |-> "", result |-> f.result,
             written |-> f.written, save_raised |-> f.save_raised]

\* an entry of the request log: the contents sent, and (history) what came back
Call(contents, resp, save_raised) ==
    [contents |-> contents, kind |-> resp.kind, error |-> resp.error,
     images |-> ImagesOf(resp.parts), save_raised |-> save_raised]

\* ---------------------------------------------------------------- inputs
Prompts == {"a red fox", ""}
Filenames == {None, Some("out")}
SpecificObjects == {None, Some("boxes")}

\* input_images lists of composition calls
ImageLists ==
    LET room == [type |-> "path", v |-> "room.jpg", openable |-> TRUE]
        missing == [type |-> "path", v |-> "missing.jpg", openable |-> FALSE]
        pil == [type |-> "pil", v |-> "pil-image", openable |-> TRUE]
        other == [type |-> "other", v |-> "42", openable |-> FALSE]
    IN { <<>>, <<room>>, <<pil, room>>, <<room, other>>, <<missing, room>> }

\* ------------------------------------------------------------------ state
Init ==
    /\ files \in [TemplateNames -> {None} \cup {Some(c) : c \in CleanRoomFiles}]
    /\ cache = << >>
    /\ pc = "idle"
    /\ op = [flow |-> T2I, output_filename |-> None, save_image |-> TRUE]
    /\ prompt = ""
    /\ image = <<>>
    /\ result = None
    /\ k = 0
    /\ calls = <<>>
    /\ written = <<>>
    /\ ret = None
    /\ caches = [l \in Loaders |-> << >>]
    /\ last = None
    /\ hist = HistInit
    /\ tw = None
    /\ batch = None
    /\ resources_dir = TRUE
    /\ threads = NoThreads

\* a call starts and reaches its primary request
Enter(flow, p, imgs, output_filename, save_image) ==
    /\ pc' = "primary"
    /\ op' = [flow |-> flow, output_filename |-> output_filename,
              save_image |-> save_image]
    /\ prompt' = p
    /\ image' = imgs
    /\ result' = None
    /\ k' = 0
    /\ calls' = <<>>
    /\ written' = <<>>
    /\ ret' = None

\* a call fails before its primary request
FailEarly(flow, e, output_filename, save_image) ==
    /\ pc' = "done"
    /\ op' = [flow |-> flow, output_filename |-> output_filename,
              save_image |-> save_image]
    /\ prompt' = ""
    /\ image' = <<>>
    /\ result' = None
    /\ k' = 0
    /\ calls' = <<>>
    /\ written' = <<>>
    /\ ret' = Some(Failure(flow, e))

GenerateTextToImage(p, output_filename, save_image) ==
    /\ pc = "idle"
    /\ Enter(T2I, p, <<>>, output_filename, save_image)
    /\ UNCHANGED <<files, cache>>
    /\ UNCHANGED auxVars

GenerateImageEditing(p, input_image, output_filename, save_image) ==
    /\ pc = "idle"
    /\ LET l == LoadImage(input_image)
       IN IF l.raised
          THEN FailEarly(EDIT, l.error, output_filename, save_image)
          ELSE Enter(EDIT, p, <<l.value>>, output_filename, save_image)
    /\ UNCHANGED <<files, cache>>
    /\ UNCHANGED auxVars

CleanImage(input_image, specific_objects, maintain_layout, output_filename, save_image) ==
    /\ pc = "idle"
    /\ LET c == CleanRoom(cache, specific_objects, maintain_layout)
           l == LoadImage(input_image)
       IN /\ cache' = c.cache
          /\ IF c.raised
             THEN FailEarly(CLEAN, c.error, output_filename, save_image)
             ELSE IF l.raised
             THEN FailEarly(CLEAN, l.error, output_filename, save_image)
             ELSE Enter(CLEAN, c.value, <<l.value>>, output_filename, save_image)
    /\ UNCHANGED files
    /\ UNCHANGED auxVars

GenerateMultiImageComposition(input_images, p, output_filename, save_image) ==
    /\ pc = "idle"
    /\ LET l == LoadImages(input_images, <<>>)
       IN IF l.raised
          THEN FailEarly(COMPOSE, l.error, output_filename, save_image)
          ELSE Enter(COMPOSE, p, l.value, output_filename, save_image)
    /\ UNCHANGED <<files, cache>>
    /\ UNCHANGED auxVars

\* the primary request and the handling of its response
PrimaryRequest(resp) ==
    /\ pc = "primary"
    /\ LET r == PrimaryResponse(op.flow, prompt, image, written, resp, op)
       IN /\ calls' = Append(calls, Call(RequestContents(op.flow, prompt, image, 0),
                                         resp, resp.kind = "parts" /\ r.raised))
          /\ written' = r.written
          /\ IF r.raised
             THEN /\ pc' = "done"
                  /\ ret' = Some(Failure(op.flow, r.error))
                  /\ UNCHANGED <<result, k>>
             ELSE /\ result' = Some(r.result)
                  /\ IF r.result.image_data = None
                     THEN pc' = "fallback" /\ k' = 1 /\ ret' = None
                     ELSE pc' = "done" /\ ret' = Some(r.result) /\ UNCHANGED k
    /\ UNCHANGED <<files, cache, op, prompt, image>>
    /\ UNCHANGED auxVars

\* fallback strategy k and the handling of its response
FallbackRequest(resp) ==
    /\ pc = "fallback"
    /\ LET f == FallbackResponse(Val(result), written, resp, op)
       IN /\ calls' = Append(calls, Call(RequestContents(op.flow, prompt, image, k),
                                         resp, f.save_raised))
          /\ written' = f.written
          /\ IF f.raised
             THEN /\ pc' = "done"
                  /\ ret' = Some(Failure(op.flow, f.error))
                  /\ UNCHANGED <<result, k>>
             ELSE /\ result' = Some(f.result)
                  /\ IF TriesNext(op.flow, f.result, k)
                     THEN pc' = "fallback" /\ k' = k + 1 /\ ret' = None
                     ELSE pc' = "done" /\ ret' = Some(f.result) /\ UNCHANGED k
    /\ UNCHANGED <<files, cache, op, prompt, image>>
    /\ UNCHANGED auxVars

\* the caller has the returned dict; the call's locals are gone
Returned ==
    /\ pc = "done"
    /\ pc' = "idle"
    /\ op' = [flow |-> T2I, output_filename |-> None, save_image |-> TRUE]
    /\ prompt' = ""
    /\ image' = <<>>
    /\ result' = None
    /\ k' = 0
    /\ calls' = <<>>
    /\ written' = <<>>
    /\ ret' = None
    /\ UNCHANGED <<files, cache>>
    /\ UNCHANGED auxVars

Next ==
    \/ \E p \in Prompts, fn \in Filenames, s \in BOOLEAN :
          GenerateTextToImage(p, fn, s)
    \/ \E p \in Prompts, i \in InputImages, fn \in Filenames, s \in BOOLEAN :
          GenerateImageEditing(p, i, fn, s)
    \/ \E i \in InputImages, so \in SpecificObjects, ml \in BOOLEAN,
          fn \in Filenames, s \in BOOLEAN :
          CleanImage(i, so, ml, fn, s)
    \/ \E is \in ImageLists, p \in Prompts,
          fn \in Filenames, s \in BOOLEAN :
          GenerateMultiImageComposition(is, p, fn, s)
    \/ \E resp \in Responses : PrimaryRequest(resp)
    \/ \E resp \in Responses : FallbackRequest(resp)
    \/ Returned

Spec == Init /\ [][Next]_vars

\* ------------------------------------------------- the loader used directly
\* no generation call runs
GenIdle ==
    /\ cache = << >>
    /\ pc = "idle"
    /\ op = [flow |-> T2I, output_filename |-> None, save_image |-> TRUE]
    /\ prompt = ""
    /\ image = <<>>
    /\ result = None
    /\ k = 0
    /\ calls = <<>>
    /\ written = <<>>
    /\ ret = None
    /\ tw = None
    /\ batch = None

InitLoader ==
    /\ files \in { f \in [LoaderNames -> {None} \cup {Some(c) : c \in CleanRoomFiles
                                                             \cup TextToImageFiles}] :
                     \A n \in LoaderNames :
                        IF f[n] = None THEN TRUE ELSE Val(f[n]) \in FileContents(n) }
    /\ caches = [l \in Loaders |-> << >>]
    /\ last = None
    /\ hist = HistInit
    /\ GenIdle
    /\ resources_dir = TRUE
    /\ threads = NoThreads

\* loader.load_prompt(name), through loader l.  last keeps, beside the
\* outcome, what held before the call: the loader's cache, the file, and
\* the history of this name (prev: what this loader last returned for it and
\* the file content that value was read from; warm: loaded through some loader since the last
\* clear of any; warmBy: loaded through this loader since its last clear;
\* failed: this loader's previous load of it raised)
Load(l, name) ==
    LET r == LoadPrompt(caches[l], name)
    IN /\ caches' = [caches EXCEPT ![l] = r.cache]
       /\ last' = Some([kind |-> "load", loader |-> l, name |-> name,
                        raised |-> r.raised, error |-> r.error,
                        value |-> r.value, read |-> r.read,
                        before |-> caches[l], file |-> files[name],
                        prev |-> hist.returned[l][name],
                        warm |-> name \in hist.warm,
                        warmBy |-> name \in hist.warmBy[l],
                        failed |-> name \in hist.failed[l]])
       /\ hist' = IF r.raised
                  THEN [hist EXCEPT !.failed[l] = @ \cup {name}]
                  ELSE [returned |-> [hist.returned EXCEPT ![l][name] =
                                        Some([value |-> r.value,
                                              file |-> IF r.read THEN files[name]
                                                       ELSE Val(hist.returned[l][name]).file])],
                        warm |-> hist.warm \cup {name},
                        warmBy |-> [hist.warmBy EXCEPT ![l] = @ \cup {name}],
                        failed |-> [hist.failed EXCEPT ![l] = @ \ {name}]]
       /\ UNCHANGED <<genVars, tw, batch, resources_dir, threads>>

\* loader.reload_cache(), through loader l
Reload(l) ==
    /\ caches' = [caches EXCEPT ![l] = ReloadCache(caches[l])]
    /\ last' = Some([kind |-> "reload", loader |-> l, before |-> caches[l]])
    /\ hist' = [hist EXCEPT !.warm = {}, !.warmBy[l] = {}]
    /\ UNCHANGED <<genVars, tw, batch, resources_dir, threads>>

\* the environment: a template file is written, replaced or removed
WriteFile(name, content) ==
    /\ content # files[name]
    /\ files' = [files EXCEPT ![name] = content]
    /\ last' = Some([kind |-> "write", name |-> name])
    /\ UNCHANGED <<cache, pc, op, prompt, image, result, k, calls, written, ret>>
    /\ UNCHANGED <<caches, hist, tw, batch, resources_dir, threads>>

NextLoader ==
    \/ \E l \in Loaders, n \in LoaderNames : Load(l, n)
    \/ \E l \in Loaders : Reload(l)
    \/ \E n \in LoaderNames :
          \E c \in {None} \cup {Some(x) : x \in FileContents(n)} : WriteFile(n, c)

SpecLoader == InitLoader /\ [][NextLoader]_vars

\* --------------------------------------------------- generate_with_template
\* the template types generate_with_template dispatches on
TemplateKinds ==
    {"text_to_image", "inpainting", "style_transfer",
     "multi_image_composition", "text_rendering"}

\* template types a caller may pass: the five, and one that is none of them
TemplateTypes == TemplateKinds \cup {"collage"}

\* the template types that need an input image
RequiresInputImage(template_type) ==
    template_type \in {"inpainting", "style_transfer", "multi_image_composition"}

\* the parameters of each composer that have no default
Required(kind) ==
    CASE kind = "text_to_image" -> {"subject"}
      [] kind = "inpainting" ->
            {"base_image_description", "mask_area", "replacement_content"}
      [] kind = "style_transfer" -> {"source_image_description", "target_style"}
      [] kind = "multi_image_composition" -> {"images", "composition_goal"}
      [] kind = "text_rendering" -> {"text_content", "design_style", "context"}

\* the parameters of each composer
Accepted(kind) ==
    Required(kind) \cup
    CASE kind = "text_to_image" ->
            {"style", "context", "camera_angle", "lighting", "composition",
             "negative_prompt"}
      [] kind = "inpainting" -> {"style_consistency"}
      [] kind = "style_transfer" -> {"preserve_subject"}
      [] kind = "multi_image_composition" -> {"blending_style"}
      [] kind = "text_rendering" -> {}

\* kw.get(key, default)
Get(kw, key, default) == IF key \in DOMAIN kw THEN kw[key] ELSE default

\* an optional str parameter whose default is None
Opt(kw, key) == IF key \in DOMAIN kw THEN Some(kw[key]) ELSE None

\* what the composition of a prompt raises
Raise(e, c) == [raised |-> TRUE, error |-> e, value |-> "", cache |-> c]

\* mutant: an error of the composition is swallowed and the prompt left empty
ComposePromptLenient(c, template_type, kw) ==
    [raised |-> FALSE, error |-> "", value |-> "", cache |-> c]

\* the if/elif ladder of generate_with_template that composes the prompt:
\* self.prompt_templates.<template_type>(**template_kwargs)
ComposePrompt(c, template_type, kw) ==
    IF template_type \notin TemplateKinds
    THEN Raise("Unknown template type: " \o template_type, c)
    ELSE IF ~(DOMAIN kw \subseteq Accepted(template_type))
    THEN Raise(template_type \o "() got an unexpected keyword argument", c)
    ELSE IF ~(Required(template_type) \subseteq DOMAIN kw)
    THEN Raise(template_type \o "() missing required positional argument", c)
    ELSE CASE template_type = "text_to_image" ->
                TextToImage(c, kw.subject, Get(kw, "style", PHOTOREALISTIC),
                            Opt(kw, "context"), Opt(kw, "camera_angle"),
                            Opt(kw, "lighting"), Opt(kw, "composition"),
                            Opt(kw, "negative_prompt"))
           [] template_type = "inpainting" ->
                Inpainting(c, kw.base_image_description, kw.mask_area,
                           kw.replacement_content,
                           Get(kw, "style_consistency", TRUE))
           [] template_type = "style_transfer" ->
                StyleTransfer(c, kw.source_image_description, kw.target_style,
                              Get(kw, "preserve_subject", TRUE))
           [] template_type = "multi_image_composition" ->
                MultiImageComposition(c, kw.images, kw.composition_goal,
                                      Get(kw, "blending_style", "seamless"))
           [] template_type = "text_rendering" ->
                TextRendering(c, kw.text_content, kw.design_style, kw.context)

\* template files of the five kinds: all as shipped
ShippedTemplates ==
    [n \in TemplateKinds |->
        CASE n = "text_to_image" ->
                Some(<<Ph("style"), Lit(" "), Ph("context"), Lit(" of "),
                      Ph("subject"), Ph("angle"), Ph("lighting"),
                      Ph("composition"), Ph("negative_prompt"), Lit(".")>>)
          [] n = "inpainting" ->
                Some(<<Lit("In "), Ph("base_image_description"), Lit(", change only "),
                      Ph("mask_area"), Lit(" to "), Ph("replacement_content"),
                      Ph("style_consistency"), Lit(".")>>)
          [] n = "style_transfer" ->
                Some(<<Lit("Transform "), Ph("source_image_description"),
                      Lit(" into "), Ph("target_style"), Ph("preserve_subject"),
                      Lit(".")>>)
          [] n = "multi_image_composition" ->
                Some(<<Lit("Combine "), Ph("images"), Lit(" into "),
                      Ph("composition_goal"), Lit(", "), Ph("blending_style"),
                      Lit(".")>>)
          [] n = "text_rendering" ->
                Some(<<Lit("Create a "), Ph("design_style"), Lit(" "),
                      Ph("context"), Lit(" with the text '"), Ph("text_content"),
                      Lit("'.")>>)]

\* the template directories a generator may run on: as shipped; with
\* inpainting.txt and text_rendering.txt absent; with a style_transfer.txt
\* that references a placeholder its composer does not supply
TemplateDirs ==
    { ShippedTemplates,
      [ShippedTemplates EXCEPT !["inpainting"] = None, !["text_rendering"] = None],
      [ShippedTemplates EXCEPT !["style_transfer"] =
          Some(<<Lit("Transform "), Ph("source_image_description"), Lit(" into "),
                Ph("target_style"), Lit(" in a "), Ph("mood"), Lit(" mood.")>>)] }

\* template parameters a caller passes for each template type
TemplateKwargs(template_type) ==
    CASE template_type = "text_to_image" ->
            { [subject |-> "a cat"],
              [subject |-> "a cat", lighting |-> "soft light"],
              [lighting |-> "soft light"] }
      [] template_type = "inpainting" ->
            { [base_image_description |-> "a room", mask_area |-> "the sofa",
               replacement_content |-> "a bench"],
              [base_image_description |-> "a room", mask_area |-> "the sofa"] }
      [] template_type = "style_transfer" ->
            { [source_image_description |-> "a street", target_style |-> "ukiyo-e"],
              [source_image_description |-> "a street", target_style |-> "ukiyo-e",
               strength |-> "high"] }
      [] template_type = "multi_image_composition" ->
            { [images |-> <<"a dress", "a model">>, composition_goal |-> "a catalogue"] }
      [] template_type = "text_rendering" ->
            { [text_content |-> "OPEN", design_style |-> "neon", context |-> "sign"],
              [text_content |-> "OPEN"] }
      [] OTHER -> { [subject |-> "a cat"] }

\* the input_image keyword: absent, a path that opens, a value of another type
TemplateInputImages ==
    { None,
      Some([type |-> "path", v |-> "room.jpg", openable |-> TRUE]),
      Some([type |-> "other", v |-> "42", openable |-> FALSE]) }

\* the save_image keyword: absent or False
SaveImageKwargs == {None, Some(FALSE)}

\* responses of the model to a delegated call
TemplateResponses ==
    { [kind |-> "raise", error |-> "API Error", parts |-> <<>>],
      [kind |-> "parts", error |-> "",
       parts |-> << [text |-> Some("Here is your image."), inline_data |-> None] >>],
      [kind |-> "parts", error |-> "",
       parts |-> << [text |-> None, inline_data |-> Some("png-1")] >>] }

InitTemplate ==
    /\ files \in TemplateDirs
    /\ cache = << >>
    /\ pc = "idle"
    /\ op = [flow |-> T2I, output_filename |-> None, save_image |-> TRUE]
    /\ prompt = ""
    /\ image = <<>>
    /\ result = None
    /\ k = 0
    /\ calls = <<>>
    /\ written = <<>>
    /\ ret = None
    /\ caches = [l \in Loaders |-> << >>]
    /\ last = None
    /\ hist = HistInit
    /\ tw = None
    /\ batch = None
    /\ resources_dir = TRUE
    /\ threads = NoThreads

\* generate_with_template(template_type, **kwargs) up to the primary request
\* of the generation call it delegates to, or to its return if it fails
\* before.  kw are the template parameters among kwargs; tw keeps the
\* arguments, the loader cache before the call and the composed prompt
GenerateWithTemplate(template_type, kw, input_image, output_filename, save_image) ==
    /\ pc = "idle"
    /\ LET c == ComposePrompt(cache, template_type, kw)
           save == IF save_image = None THEN TRUE ELSE Val(save_image)
       IN /\ cache' = c.cache
          /\ tw' = Some([template_type |-> template_type, kw |-> kw,
                         input_image |-> input_image, before |-> cache,
                         composed |-> IF c.raised THEN None ELSE Some(c.value)])
          /\ IF c.raised
             THEN FailEarly(template_type, c.error, output_filename, save)
             ELSE IF RequiresInputImage(template_type)
             THEN IF input_image = None
                  THEN FailEarly(template_type,
                                 "Template '" \o template_type
                                     \o "' requires input_image parameter",
                                 output_filename, save)
                  ELSE LET l == LoadImage(Val(input_image))
                       IN IF l.raised
                          THEN FailEarly(EDIT, l.error, output_filename, save)
                          ELSE Enter(EDIT, c.value, <<l.value>>, output_filename, save)
             ELSE Enter(T2I, c.value, <<>>, output_filename, save)
    /\ UNCHANGED <<files, caches, last, hist, batch, resources_dir, threads>>

NextTemplate ==
    \/ \E template_type \in TemplateTypes :
          \E kw \in TemplateKwargs(template_type),
             input_image \in TemplateInputImages,
             fn \in Filenames, s \in SaveImageKwargs :
             GenerateWithTemplate(template_type, kw, input_image, fn, s)
    \/ \E resp \in TemplateResponses : PrimaryRequest(resp)
    \/ \E resp \in TemplateResponses : FallbackRequest(resp)
    \/ Returned

SpecTemplate == InitTemplate /\ [][NextTemplate]_vars

\* ------------------------------------- the five operations side by side
\* a generator called directly (only the clean_room template is looked at)
\* or through generate_with_template (the template directory as shipped)
InitCalls == Init \/ InitTemplate

\* the generator is the one called directly
Direct == DOMAIN files = TemplateNames

DirectCalls == Direct /\ Next

TemplateCalls == ~Direct /\ NextTemplate

NextCalls == DirectCalls \/ TemplateCalls

SpecCalls == InitCalls /\ [][NextCalls]_vars

\* ------------------------------------------------------------ batch_generate
\* f"{n:03d}" for the indices a batch reaches
Pad3(n) == IF n < 10 THEN "00" \o SubSeq("0123456789", n + 1, n + 1)
           ELSE "0" \o SubSeq("0123456789", (n \div 10) + 1, (n \div 10) + 1)
                    \o SubSeq("0123456789", (n % 10) + 1, (n % 10) + 1)

\* mutant: every entry of the batch gets the name of the first
BatchFilenameFixed(output_prefix, i) == output_prefix \o "_001"

\* f"{output_prefix}_{i+1:03d}", i counted from 0
BatchFilename(output_prefix, i) == output_prefix \o "_" \o Pad3(i + 1)

\* mutant: the result is put in front of the list
AppendResultInFront(results, r) == <<r>> \o results

\* results.append(result)
AppendResult(results, r) == Append(results, r)

\* the prompts lists and prefixes a caller passes
BatchPrompts ==
    { <<>>, <<"a red fox">>, <<"a red fox", "a blue jay">>,
      <<"a blue jay", "a red fox">>, <<"a red fox", "a red fox">> }
Prefixes == {"batch", "set"}

\* responses of the model to a call of the batch
BatchResponses ==
    { [kind |-> "raise", error |-> "API Error", parts |-> <<>>],
      [kind |-> "parts", error |-> "",
       parts |-> << [text |-> Some("Here is your image."), inline_data |-> None] >>],
      [kind |-> "parts", error |-> "",
       parts |-> << [text |-> None, inline_data |-> Some("png-1")] >>] }

InitBatch ==
    /\ files \in [TemplateNames -> {None} \cup {Some(c) : c \in CleanRoomFiles}]
    /\ caches = [l \in Loaders |-> << >>]
    /\ last = None
    /\ hist = HistInit
    /\ GenIdle
    /\ resources_dir = TRUE
    /\ threads = NoThreads

\* batch_generate has returned: no generation call runs
BackToIdle ==
    /\ pc' = "idle"
    /\ op' = [flow |-> T2I, output_filename |-> None, save_image |-> TRUE]
    /\ prompt' = ""
    /\ image' = <<>>
    /\ result' = None
    /\ k' = 0
    /\ calls' = <<>>
    /\ written' = <<>>
    /\ ret' = None

\* the head of the for loop with `results` collected so far: the next
\* generate_text_to_image call starts, or the list is returned.  served
\* keeps, for each call made, the prompt it ran on and what it returned
LoopHead(prompts, output_prefix, results, served) ==
    IF Len(results) < Len(prompts)
    THEN /\ Enter(T2I, prompts[Len(results) + 1], <<>>,
                  Some(BatchFilename(output_prefix, Len(results))), TRUE)
         /\ batch' = Some([prompts |-> prompts, output_prefix |-> output_prefix,
                           results |-> results, served |-> served,
                           returned |-> None])
    ELSE /\ BackToIdle
         /\ batch' = Some([prompts |-> prompts, output_prefix |-> output_prefix,
                           results |-> results, served |-> served,
                           returned |-> Some(results)])

\* batch_generate(prompts, output_prefix) up to the primary request of its
\* first call, or to its return if prompts is empty
BatchGenerate(prompts, output_prefix) ==
    /\ pc = "idle"
    /\ LoopHead(prompts, output_prefix, <<>>, <<>>)
    /\ UNCHANGED <<files, cache, caches, last, hist, tw, resources_dir, threads>>

\* a call of the batch has returned: its result is appended and the loop
\* goes on (served also keeps the filename the call was given and the
\* writes it made)
BatchCollect ==
    /\ pc = "done"
    /\ batch # None
    /\ Val(batch).returned = None
    /\ LoopHead(Val(batch).prompts, Val(batch).output_prefix,
                AppendResult(Val(batch).results, Val(ret)),
                Append(Val(batch).served,
                       [prompt |-> prompt, ret |-> Val(ret),
                        filename |-> op.output_filename, written |-> written]))
    /\ UNCHANGED <<files, cache, caches, last, hist, tw, resources_dir, threads>>

NextBatch ==
    \/ \E prompts \in BatchPrompts, output_prefix \in Prefixes :
          BatchGenerate(prompts, output_prefix)
    \/ \E resp \in BatchResponses : PrimaryRequest(resp)
    \/ \E resp \in BatchResponses : FallbackRequest(resp)
    \/ BatchCollect

SpecBatch == InitBatch /\ [][NextBatch]_vars

\* --------------------------------------------- listing the resource directory
\* the directory is absent, or present with any of the template files
InitList ==
    /\ resources_dir \in BOOLEAN
    /\ files \in { f \in [LoaderNames -> {None} \cup {Some(c) : c \in CleanRoomFiles
                                                             \cup TextToImageFiles}] :
                     \A n \in LoaderNames :
                        IF f[n] = None THEN TRUE
                        ELSE resources_dir /\ Val(f[n]) \in FileContents(n) }
    /\ caches = [l \in Loaders |-> << >>]
    /\ last = None
    /\ hist = HistInit
    /\ GenIdle
    /\ threads = NoThreads

\* loader.list_available_prompts(), through loader l
List(l) ==
    LET r == ListAvailablePrompts(caches[l])
    IN \E v \in r.values :
          /\ caches' = [caches EXCEPT ![l] = r.cache]
          /\ last' = Some([kind |-> "list", loader |-> l, raised |-> r.raised,
                           error |-> r.error, value |-> v, before |-> caches[l],
                           dir |-> resources_dir,
                           present |-> { n \in DOMAIN files : files[n] # None }])
          /\ UNCHANGED <<genVars, hist, tw, batch, resources_dir, threads>>

\* the environment: the resource directory is removed with all its files
RemoveDir ==
    /\ resources_dir
    /\ resources_dir' = FALSE
    /\ files' = [n \in DOMAIN files |-> None]
    /\ last' = Some([kind |-> "rmdir"])
    /\ UNCHANGED <<cache, pc, op, prompt, image, result, k, calls, written, ret>>
    /\ UNCHANGED <<caches, hist, tw, batch, threads>>

\* the environment: the resource directory is created, empty
MakeDir ==
    /\ ~resources_dir
    /\ resources_dir' = TRUE
    /\ last' = Some([kind |-> "mkdir"])
    /\ UNCHANGED genVars
    /\ UNCHANGED <<caches, hist, tw, batch, threads>>

\* the environment: a file of the existing directory is written or removed
WriteFileInDir(name, content) == resources_dir /\ WriteFile(name, content)

NextList ==
    \/ \E l \in Loaders : List(l)
    \/ \E n \in LoaderNames : Load(TheLoader, n)
    \/ RemoveDir
    \/ MakeDir
    \/ \E n \in LoaderNames :
          \E c \in {None} \cup {Some(x) : x \in FileContents(n)} :
             WriteFileInDir(n, c)

SpecList == InitList /\ [][NextList]_vars

\* ------------------------------------------- concurrent calls on one loader
\* threads that call load_prompt and reload_cache on the same PromptLoader;
\* a thread may be preempted between any two statements of load_prompt
Threads == {"t1", "t2"}

\* the shared loader's _cache
Shared == caches[TheLoader]

\* a thread outside any call
IdleThread ==
    [pc |-> "idle", name |-> "", content |-> <<>>, out |-> None,
     read |-> FALSE, clear_seen |-> FALSE]

\* what a finished load_prompt gave its caller
Outcome3(raised, error, value) == [raised |-> raised, error |-> error, value |-> value]

\* mutant: the store replaces the whole dict
StoreEntryAlone(c, name, content) == (name :> content)

\* self._cache[prompt_name] = content
StoreEntry(c, name, content) == SetKey(c, name, content)

InitConc ==
    /\ files \in { f \in [LoaderNames -> {None} \cup {Some(c) : c \in CleanRoomFiles
                                                             \cup TextToImageFiles}] :
                     \A n \in LoaderNames :
                        IF f[n] = None THEN TRUE ELSE Val(f[n]) \in FileContents(n) }
    /\ caches = [l \in Loaders |-> << >>]
    /\ last = None
    /\ hist = HistInit
    /\ GenIdle
    /\ resources_dir = TRUE
    /\ threads = [t \in Threads |-> IdleThread]

\* what a step of a thread leaves alone, beside caches and threads
ThreadFrame(t, step) ==
    /\ last' = Some([kind |-> "thread", thread |-> t, step |-> step])
    /\ UNCHANGED <<genVars, hist, tw, batch, resources_dir>>

\* thread t calls load_prompt(name)
LoadStart(t, name) ==
    /\ threads[t].pc = "idle"
    /\ threads' = [threads EXCEPT ![t] = [IdleThread EXCEPT !.pc = "test", !.name = name]]
    /\ UNCHANGED caches
    /\ ThreadFrame(t, "start")

\* `if prompt_name in self._cache:`
LoadTest(t) ==
    /\ threads[t].pc = "test"
    /\ threads' = [threads EXCEPT ![t].pc =
                      IF threads[t].name \in DOMAIN Shared THEN "hit" ELSE "miss"]
    /\ UNCHANGED caches
    /\ ThreadFrame(t, "test")

\* `return self._cache[prompt_name]`: a KeyError if the entry is gone
LoadHit(t) ==
    /\ threads[t].pc = "hit"
    /\ threads' = [threads EXCEPT
                      ![t].pc = "done",
                      ![t].out =
                         IF threads[t].name \in DOMAIN Shared
                         THEN Some(Outcome3(FALSE, "", Shared[threads[t].name]))
                         ELSE Some(Outcome3(TRUE, "KeyError: " \o threads[t].name, <<>>))]
    /\ UNCHANGED caches
    /\ ThreadFrame(t, "hit")

\* `if not prompt_file.exists(): raise FileNotFoundError(...)`
LoadExists(t) ==
    /\ threads[t].pc = "miss"
    /\ threads' = IF files[threads[t].name] = None
                  THEN [threads EXCEPT
                          ![t].pc = "done",
                          ![t].out = Some(Outcome3(TRUE,
                                        "Prompt file not found: " \o threads[t].name
                                            \o ".txt", <<>>))]
                  ELSE [threads EXCEPT ![t].pc = "open"]
    /\ UNCHANGED caches
    /\ ThreadFrame(t, "exists")

\* `content = f.read().strip()`
LoadRead(t) ==
    /\ threads[t].pc = "open"
    /\ threads' = [threads EXCEPT ![t].pc = "store", ![t].read = TRUE,
                                  ![t].content = Strip(Val(files[threads[t].name]))]
    /\ UNCHANGED caches
    /\ ThreadFrame(t, "read")

\* `self._cache[prompt_name] = content; return content`
LoadStore(t) ==
    /\ threads[t].pc = "store"
    /\ caches' = [caches EXCEPT ![TheLoader] =
                      StoreEntry(Shared, threads[t].name, threads[t].content)]
    /\ threads' = [threads EXCEPT
                      ![t].pc = "done",
                      ![t].out = Some(Outcome3(FALSE, "", threads[t].content))]
    /\ ThreadFrame(t, "store")

\* thread t calls reload_cache(): dict.clear() is one step.  Every load
\* in progress in another thread has now seen a clear
ClearCache(t) ==
    /\ threads[t].pc = "idle"
    /\ caches' = [caches EXCEPT ![TheLoader] = ReloadCache(Shared)]
    /\ threads' = [u \in Threads |->
                      IF threads[u].pc \in {"test", "hit", "miss", "open", "store"}
                      THEN [threads[u] EXCEPT !.clear_seen = TRUE]
                      ELSE threads[u]]
    /\ ThreadFrame(t, "clear")

\* the caller of thread t has the outcome of its load
ThreadExit(t) ==
    /\ threads[t].pc = "done"
    /\ threads' = [threads EXCEPT ![t] = IdleThread]
    /\ UNCHANGED caches
    /\ ThreadFrame(t, "exit")

NextConc ==
    \/ \E t \in Threads, n \in LoaderNames : LoadStart(t, n)
    \/ \E t \in Threads : LoadTest(t)
    \/ \E t \in Threads : LoadHit(t)
    \/ \E t \in Threads : LoadExists(t)
    \/ \E t \in Threads : LoadRead(t)
    \/ \E t \in Threads : LoadStore(t)
    \/ \E t \in Threads : ClearCache(t)
    \/ \E t \in Threads : ThreadExit(t)

SpecConc == InitConc /\ [][NextConc]_vars

\* ------------------------------------------- formatting and composing prompts
\* contents of clean_room.txt and text_to_image.txt when formatting: among
\* them one whose literal text holds an escaped-brace token ("{{room}}" in
\* the file) and one that references fewer placeholders
FormatFiles(name) ==
    IF name = "clean_room"
    THEN { <<Ph("remove_instruction"), Lit(" in the "), Ph("room")>>,
           <<Lit("key {room}: "), Ph("room"), Ws("\n")>> }
    ELSE TextToImageFiles \cup
         { <<Ph("style"), Lit(" picture of "), Ph("subject"), Ph("lighting")>> }

\* keyword arguments given to format_prompt directly
FormatKeys == {"remove_instruction", "room", "note"}
FormatValues == {None, Some("boxes"), Some("{room}")}
Kwargs == UNION { [S -> FormatValues] : S \in SUBSET FormatKeys }

\* arguments given to the text_to_image composer
Subjects == {"a cat"}
Styles == {PHOTOREALISTIC, ANIME}
Contexts == {None, Some(""), Some("poster")}
CameraAngles == {None, Some(CLOSE_UP)}
Lightings == {None, Some("soft light")}
Compositions == {None, Some("")}
NegativePrompts == {None, Some("a clear sky")}

InitFormat ==
    /\ files \in { f \in [LoaderNames -> {None} \cup
                            {Some(c) : c \in FormatFiles("clean_room")
                                            \cup FormatFiles("text_to_image")}] :
                     \A n \in LoaderNames :
                        IF f[n] = None THEN TRUE ELSE Val(f[n]) \in FormatFiles(n) }
    /\ caches = [l \in Loaders |-> << >>]
    /\ last = None
    /\ hist = HistInit
    /\ GenIdle
    /\ resources_dir = TRUE
    /\ threads = NoThreads

\* the template format_prompt works on: None if load_prompt raises
TemplateOf(c, name) ==
    LET l == LoadPrompt(c, name)
    IN IF l.raised THEN None ELSE Some(l.value)

\* loader.format_prompt(name, **kwargs)
Format(name, kwargs) ==
    LET r == FormatPrompt(caches[TheLoader], name, kwargs)
    IN /\ caches' = [caches EXCEPT ![TheLoader] = r.cache]
       /\ last' = Some([kind |-> "format", name |-> name, kwargs |-> kwargs,
                        before |-> caches[TheLoader],
                        tpl |-> TemplateOf(caches[TheLoader], name),
                        raised |-> r.raised, error |-> r.error, value |-> r.value])
       /\ UNCHANGED <<genVars, hist, tw, batch, resources_dir, threads>>

\* templates.text_to_image(subject, style, context, camera_angle, lighting,
\* composition, negative_prompt)
ComposeTextToImage(subject, style, context, camera_angle, lighting, composition, negative_prompt) ==
    LET r == TextToImage(caches[TheLoader], subject, style, context,
                         camera_angle, lighting, composition, negative_prompt)
    IN /\ caches' = [caches EXCEPT ![TheLoader] = r.cache]
       /\ last' = Some([kind |-> "text_to_image",
                        subject |-> subject, style |-> style, context |-> context,
                        camera_angle |-> camera_angle, lighting |-> lighting,
                        composition |-> composition,
                        negative_prompt |-> negative_prompt,
                        kwargs |-> TextToImageKwargs(subject, style, context,
                                       camera_angle, lighting, composition,
                                       negative_prompt),
                        before |-> caches[TheLoader],
                        tpl |-> TemplateOf(caches[TheLoader], "text_to_image"),
                        raised |-> r.raised, error |-> r.error, value |-> r.value])
       /\ UNCHANGED <<genVars, hist, tw, batch, resources_dir, threads>>

NextFormat ==
    \/ \E kwargs \in Kwargs : Format("clean_room", kwargs)
    \/ \E subject \in Subjects, style \in Styles, context \in Contexts,
          camera_angle \in CameraAngles, lighting \in Lightings,
          composition \in Compositions, negative_prompt \in NegativePrompts :
            ComposeTextToImage(subject, style, context, camera_angle, lighting,
                               composition, negative_prompt)

SpecFormat == InitFormat /\ [][NextFormat]_vars

\* ------------------------------------- the clean_room and step_by_step composers
\* the templates of the two composers
ComposerNames == {"clean_room", "step_by_step"}

\* contents of clean_room.txt and step_by_step.txt
ComposerFiles(name) ==
    IF name = "clean_room"
    THEN { <<Ws("\n"), Lit("Task: "), Ph("remove_instruction"), Ph("maintain_layout"),
             Lit("."), Ws("\n")>>,
           <<Ph("remove_instruction"), Lit(" in the "), Ph("room")>> }
    ELSE { <<Lit("Follow these steps. "), Ph("steps"), Ws("\n")>>,
           <<Lit("Steps: "), Ph("steps"), Lit(" ("), Ph("steps"), Lit(")")>> }

\* arguments given to the two composers
ObjectsArgs == {None, Some(""), Some("boxes"), Some("old sofa")}
StepLists ==
    { <<>>, <<"mix">>, <<"mix", "bake">>, <<"bake", "mix">>,
      <<"mix", "bake", "serve">>, <<"mix", "mix">> }

InitCompose ==
    /\ files \in { f \in [ComposerNames -> {None} \cup
                            {Some(c) : c \in ComposerFiles("clean_room")
                                            \cup ComposerFiles("step_by_step")}] :
                     \A n \in ComposerNames :
                        IF f[n] = None THEN TRUE ELSE Val(f[n]) \in ComposerFiles(n) }
    /\ caches = [l \in Loaders |-> << >>]
    /\ last = None
    /\ hist = HistInit
    /\ GenIdle
    /\ resources_dir = TRUE
    /\ threads = NoThreads

\* templates.clean_room(specific_objects, maintain_layout)
ComposeCleanRoom(specific_objects, maintain_layout) ==
    LET r == CleanRoom(caches[TheLoader], specific_objects, maintain_layout)
    IN /\ caches' = [caches EXCEPT ![TheLoader] = r.cache]
       /\ last' = Some([kind |-> "clean_room",
                        specific_objects |-> specific_objects,
                        maintain_layout |-> maintain_layout,
                        kwargs |-> CleanRoomKwargs(specific_objects, maintain_layout),
                        tpl |-> TemplateOf(caches[TheLoader], "clean_room"),
                        raised |-> r.raised, error |-> r.error, value |-> r.value])
       /\ UNCHANGED <<genVars, hist, tw, batch, resources_dir, threads>>

\* templates.step_by_step_instructions(steps)
ComposeSteps(steps) ==
    LET r == StepByStepInstructions(caches[TheLoader], steps)
    IN /\ caches' = [caches EXCEPT ![TheLoader] = r.cache]
       /\ last' = Some([kind |-> "step_by_step", steps |-> steps,
                        kwargs |-> StepByStepKwargs(steps),
                        tpl |-> TemplateOf(caches[TheLoader], "step_by_step"),
                        raised |-> r.raised, error |-> r.error, value |-> r.value])
       /\ UNCHANGED <<genVars, hist, tw, batch, resources_dir, threads>>

NextCompose ==
    \/ \E specific_objects \in ObjectsArgs, maintain_layout \in BOOLEAN :
          ComposeCleanRoom(specific_objects, maintain_layout)
    \/ \E steps \in StepLists : ComposeSteps(steps)

SpecCompose == InitCompose /\ [][NextCompose]_vars

\* ------------------------------------------------------------ properties
\* the returned dict
R == Val(ret)

\* the request log's last entry
LastCall == calls[Len(calls)]

\* `d` is one of the image payloads the response to request i carried
PayloadOf(d, i) == \E j \in 1..Len(calls[i].images) : d = Some(calls[i].images[j])

\* the fallback ladder of generate_text_to_image as the specification lists it
SpecLadder(p) ==
    << p, p, "Generate a high-quality image: " \o p, "Create an image",
       "Generate an image of: " \o p \o ". Create a visual representation." >>

\* every request so far was answered by a readable response (a model stub
\* that returns, never raises)
StubReturns == \A i \in 1..Len(calls) : calls[i].kind = "parts"

\* C1 (as claimed): once a request has yielded an image payload no further
\* request is made, the call has returned, and the returned image_data is a
\* payload of that request.
C1_StopsAtFirstImage_AsClaimed ==
    \A i \in 1..Len(calls) :
        calls[i].images # <<>> =>
            /\ i = Len(calls)
            /\ pc = "done"
            /\ "image_data" \in DOMAIN R
            /\ PayloadOf(R.image_data, i)

\* C1 (amended): once a request has yielded an image payload no further
\* request is made and the call has returned; when the returned dict has
\* success = TRUE, its image_data is a payload of that request.  (A primary
\* image whose save raises returns the failure dict, which has no image_data.)
C1_StopsAtFirstImage ==
    \A i \in 1..Len(calls) :
        calls[i].images # <<>> =>
            /\ i = Len(calls)
            /\ pc = "done"
            /\ R.success => "image_data" \in DOMAIN R /\ PayloadOf(R.image_data, i)
            /\ ~R.success => i = 1 /\ calls[1].save_raised

\* C1 witness: the second fallback strategy yielded the image and the call
\* returned it with a strategy left untried
C1_Witness ==
    /\ pc = "done"
    /\ Len(calls) = 3
    /\ LastCall.images # <<>>
    /\ R.success
    /\ R.image_data = Some(LastCall.images[1])

\* C2 (as claimed): text-to-image against a stub that returns an image first
\* on its Nth invocation makes exactly N requests, with the prompts of the
\* ladder in order, and returns the image of the Nth.
C2_LadderOrder_AsClaimed ==
    (op.flow = T2I /\ calls # <<>> /\ StubReturns) =>
        /\ Len(calls) <= 5
        /\ \A i \in 1..Len(calls) : calls[i].contents = <<Text(SpecLadder(prompt)[i])>>
        /\ \A i \in 1..(Len(calls) - 1) : calls[i].images = <<>>
        /\ (pc = "done" /\ LastCall.images = <<>>) => Len(calls) = 5
        /\ LastCall.images # <<>> =>
            /\ pc = "done"
            /\ "image_data" \in DOMAIN R
            /\ PayloadOf(R.image_data, Len(calls))

\* C2 (amended): as claimed, except that for N = 1 with save_image set and a
\* payload whose save raises the call returns the failure dict (success =
\* FALSE, no image_data) after that one request.
C2_LadderOrder ==
    (op.flow = T2I /\ calls # <<>> /\ StubReturns) =>
        /\ Len(calls) <= 5
        /\ \A i \in 1..Len(calls) : calls[i].contents = <<Text(SpecLadder(prompt)[i])>>
        /\ \A i \in 1..(Len(calls) - 1) : calls[i].images = <<>>
        /\ (pc = "done" /\ LastCall.images = <<>>) => Len(calls) = 5
        /\ LastCall.images # <<>> =>
            /\ pc = "done"
            /\ IF Len(calls) = 1 /\ calls[1].save_raised
               THEN ~R.success /\ "image_data" \notin DOMAIN R
               ELSE R.success /\ PayloadOf(R.image_data, Len(calls))

\* C2 witness: N = 4, the image came from "Create an image"
C2_Witness ==
    /\ op.flow = T2I
    /\ prompt = "a red fox"
    /\ StubReturns
    /\ pc = "done"
    /\ Len(calls) = 4
    /\ LastCall.contents = <<Text("Create an image")>>
    /\ R.image_data = Some("png-2")

\* C3: against a stub that never returns an image and never raises, the
\* call returns success = TRUE with image_data None after exactly 5 requests
\* (text-to-image) or 4 requests (editing, clean, composition).
C3_ExhaustedLadder ==
    (pc = "done" /\ calls # <<>> /\ StubReturns
        /\ \A i \in 1..Len(calls) : calls[i].images = <<>>) =>
        /\ R.success
        /\ R.image_data = None
        /\ Len(calls) = IF op.flow = T2I THEN 5 ELSE 4

\* C3 witness: a composition call returned without image after 4 requests
C3_Witness ==
    /\ pc = "done"
    /\ op.flow = COMPOSE
    /\ StubReturns
    /\ Len(calls) = 4
    /\ R.success
    /\ R.image_data = None

\* C4: when the primary request raises, the call returns success = FALSE
\* with the exception's message as error, and that request is the only one.
C4_PrimaryRaiseIsFatal ==
    (calls # <<>> /\ calls[1].kind = "raise") =>
        /\ Len(calls) = 1
        /\ pc = "done"
        /\ ~R.success
        /\ R.error = calls[1].error

\* C4 witness: an editing call whose primary request raised "API Error"
C4_Witness ==
    /\ pc = "done"
    /\ op.flow = EDIT
    /\ Len(calls) = 1
    /\ calls[1].kind = "raise"
    /\ R.error = "API Error"

\* C5: a fallback step whose request raises, or whose response cannot be
\* read, leaves the result without image, does not end the call while a
\* strategy is left, and the call returns success = TRUE.
C5_FallbackRaiseAbsorbed ==
    \A i \in 2..Len(calls) :
        calls[i].kind # "parts" =>
            /\ pc = "done" => R.success
            /\ i = Len(calls) =>
                /\ Val(result).image_data = None
                /\ IF i - 1 < Len(Strategies(op.flow))
                   THEN pc = "fallback" /\ k = i /\ ret = None
                   ELSE pc = "done"
            /\ i < Len(calls) =>
                calls[i + 1].contents =
                    <<Text(StrategyPrompt(Strategies(op.flow)[i], prompt))>>

\* C5 witness: all four fallback steps of a text-to-image call raised and
\* the call returned success = TRUE
C5_Witness ==
    /\ pc = "done"
    /\ Len(calls) = 5
    /\ \A i \in 2..5 : calls[i].kind = "raise"
    /\ R.success

\* the image items of a contents list, in order
RECURSIVE ImageItems(_)
ImageItems(contents) ==
    IF contents = <<>> THEN <<>>
    ELSE (IF Head(contents).t = "image" THEN <<Head(contents)>> ELSE <<>>)
         \o ImageItems(Tail(contents))

\* C6: the primary request carries the call's input images and every
\* fallback request is one text item.
C6_FallbackTextOnly ==
    /\ calls # <<>> => ImageItems(calls[1].contents) = image
    /\ \A i \in 2..Len(calls) :
        /\ Len(calls[i].contents) = 1
        /\ calls[i].contents[1].t = "text"

\* C6 witness: a composition call with two input images reached its third
\* fallback request
C6_Witness ==
    /\ op.flow = COMPOSE
    /\ Len(image) = 2
    /\ Len(calls) = 4
    /\ Len(calls[1].contents) = 3

\* the first four requests of the call were made and none yielded an image
FourWithoutImage ==
    /\ Len(calls) >= 4
    /\ \A i \in 1..4 : calls[i].images = <<>>

ForcePrompt(p) == "Generate an image of: " \o p \o ". Create a visual representation."

\* C7 (as claimed): in the text-to-image and the image-editing flow, after
\* four requests without image a fifth is made, with the force prompt.
C7_FourthFallback_AsClaimed ==
    (op.flow \in {T2I, EDIT} /\ FourWithoutImage) =>
        IF Len(calls) = 4
        THEN pc = "fallback" /\ k = 4
        ELSE calls[5].contents = <<Text(ForcePrompt(prompt))>>

\* C7 (amended): in the text-to-image flow, after four requests without
\* image a fifth is made, with the force prompt; the image-editing flow has
\* no fourth fallback step: it returns after its fourth request.
C7_FourthFallback ==
    /\ (op.flow = T2I /\ FourWithoutImage) =>
        IF Len(calls) = 4
        THEN pc = "fallback" /\ k = 4
        ELSE calls[5].contents = <<Text(ForcePrompt(prompt))>>
    /\ (op.flow = EDIT /\ FourWithoutImage) =>
        Len(calls) = 4 /\ pc = "done" /\ R.success /\ R.image_data = None

\* C7 witness: a text-to-image call made its fifth request
C7_Witness ==
    /\ op.flow = T2I
    /\ FourWithoutImage
    /\ Len(calls) = 5
    /\ prompt = "a red fox"

\* C8 (as claimed): if _save_image raised during the call, whichever
\* request obtained the image, the call returns success = FALSE.
C8_SaveErrorIsFatal ==
    (pc = "done" /\ \E i \in 1..Len(calls) : calls[i].save_raised) => ~R.success

\* C9 (as claimed): a dict returned with success = TRUE has image_path
\* exactly when it has image data and save_image was set; without save_image
\* nothing is written and no image_path is recorded.
C9_PathIffPersisted ==
    pc = "done" =>
        /\ R.success =>
            ("image_path" \in DOMAIN R <=> (R.image_data # None /\ op.save_image))
        /\ ~op.save_image => written = <<>> /\ "image_path" \notin DOMAIN R

\* C10 (as claimed): every returned dict has a metadata mapping with the
\* model identifier, the prompt and the request type.
C10_Metadata_AsClaimed ==
    pc = "done" => {"model", "prompt", "type"} \subseteq DOMAIN R.metadata

\* C10 (amended): a dict returned with success = TRUE has metadata with the
\* model identifier, the call's prompt and the request type; a dict returned
\* with success = FALSE has metadata with the request type only.
C10_Metadata ==
    pc = "done" =>
        IF R.success
        THEN /\ {"model", "prompt", "type"} \subseteq DOMAIN R.metadata
             /\ R.metadata.model = "gemini-2.5-flash-image-preview"
             /\ R.metadata.prompt = prompt
             /\ R.metadata.type = op.flow
        ELSE /\ DOMAIN R.metadata = {"type"}
             /\ R.metadata.type = op.flow

\* C10 witness: a clean-image call whose primary request raised returned
\* metadata that holds the type alone
C10_Witness ==
    /\ pc = "done"
    /\ op.flow = CLEAN
    /\ Len(calls) = 1
    /\ ~R.success
    /\ DOMAIN R.metadata = {"type"}

\* ------------------------------------------------------------- the loader
LastLoad == last # None /\ Val(last).kind = "load"

\* C12: a load of a cached name returns the cached content without reading
\* the file and leaves the cache as it was; a load of an uncached name
\* whose file exists reads it, returns it stripped and stores it under the
\* name.  Hence a loader reads a name at most once between two of its
\* clears, and until then keeps returning what it returned before, whatever
\* the file has become
C12_LoadCaches ==
    LastLoad =>
        LET c == Val(last)
        IN /\ c.name \in DOMAIN c.before =>
                /\ ~c.raised /\ ~c.read
                /\ c.value = c.before[c.name]
                /\ caches[c.loader] = c.before
           /\ (c.name \notin DOMAIN c.before /\ c.file # None) =>
                /\ ~c.raised /\ c.read
                /\ c.value = Strip(Val(c.file))
                /\ caches[c.loader] = SetKey(c.before, c.name, c.value)
           /\ c.warmBy => (~c.read /\ c.value = Val(c.prev).value)
           /\ c.read => ~c.warmBy

\* a load served from the cache although the file has another content now
C12_Witness ==
    /\ LastLoad
    /\ Val(last).warmBy /\ ~Val(last).read
    /\ Val(last).file # None
    /\ Strip(Val(Val(last).file)) # Val(last).value

\* C13: a load of a name that has no file raises the not-found error and
\* leaves the cache unchanged, without an entry for the name; a load that
\* follows a failed one succeeds as soon as the file exists
C13_MissingFile ==
    LastLoad =>
        LET c == Val(last)
        IN /\ (c.name \notin DOMAIN c.before /\ c.file = None) =>
                /\ c.raised
                /\ c.error = "Prompt file not found: " \o c.name \o ".txt"
                /\ caches[c.loader] = c.before
                /\ c.name \notin DOMAIN caches[c.loader]
           /\ (c.failed /\ c.file # None) =>
                /\ ~c.raised
                /\ c.value = Strip(Val(c.file))
           /\ c.failed => c.name \notin DOMAIN c.before

\* a load that succeeds after the same loader failed on the same name,
\* with another name still cached
C13_Witness ==
    /\ LastLoad
    /\ Val(last).failed /\ ~Val(last).raised
    /\ DOMAIN Val(last).before # {}

\* C16: after a clear the loader's cache is empty; the load that follows
\* reads the file again, and returns what the loader returned for the name
\* before if the file still has the content that was read then
C16_ClearRoundTrip ==
    /\ (last # None /\ Val(last).kind = "reload") => caches[Val(last).loader] = << >>
    /\ LastLoad =>
         LET c == Val(last)
         IN (c.before = << >> /\ c.file # None) =>
                /\ c.read
                /\ (c.prev # None /\ Val(c.prev).file = c.file) =>
                        c.value = Val(c.prev).value

\* a name loaded, the cache cleared, the name loaded again from the same file
C16_Witness ==
    /\ LastLoad
    /\ Val(last).before = << >> /\ Val(last).read
    /\ Val(last).prev # None /\ Val(Val(last).prev).file = Val(last).file

\* C17 as claimed: a name loaded through any loader is served from the
\* cache by every loader until a clear
C17_ProcessWideCache_AsClaimed ==
    (LastLoad /\ Val(last).warm) => ~Val(last).read

\* C17: each loader has its own cache, which holds exactly the names
\* loaded through it since its last clear: a load through a loader is
\* served from the cache if and only if that loader has loaded the name
\* since its own last clear, whatever other loaders have loaded
C17_PerLoaderCache ==
    /\ \A l \in Loaders : DOMAIN caches[l] = hist.warmBy[l]
    /\ LastLoad =>
         LET c == Val(last)
         IN /\ c.warmBy => (~c.raised /\ ~c.read /\ c.value = c.before[c.name])
            /\ (~c.warmBy /\ ~c.raised) => c.read

\* a load that reads the file of a name another loader has in its cache
C17_Witness ==
    /\ LastLoad
    /\ Val(last).warm /\ ~Val(last).warmBy /\ Val(last).read
    /\ \E l \in Loaders \ {Val(last).loader} : Val(last).name \in DOMAIN caches[l]

\* ---------------------------------------------------------- format_prompt
LastFormat == last # None /\ Val(last).kind = "format"

\* the outcome of format_prompt that its caller sees
Outcome(r) == [raised |-> r.raised, error |-> r.error, value |-> r.value]

\* C14: for every template and every key given as None, format_prompt
\* returns what it returns when that key is given as "" and every other
\* parameter is the same
C14_NoneIsEmpty ==
    LastFormat =>
        LET c == Val(last)
        IN \A key \in DOMAIN c.kwargs :
              c.kwargs[key] = None =>
                 Outcome(c) = Outcome(FormatPrompt(c.before, c.name,
                                         [c.kwargs EXCEPT ![key] = Some("")]))

\* a successful format with a None value for a key the template references
C14_Witness ==
    /\ LastFormat
    /\ ~Val(last).raised
    /\ Val(last).value # ""
    /\ \E key \in DOMAIN Val(last).kwargs :
          /\ Val(last).kwargs[key] = None
          /\ key \in Placeholders(Val(Val(last).tpl))

\* the token "{p}"
Token(p) == "{" \o p \o "}"

\* the text format_prompt substitutes for a supplied key
Supplied(c, key) == IF c.kwargs[key] = None THEN "" ELSE Val(c.kwargs[key])

LastCompose == last # None /\ Val(last).kind = "text_to_image"

\* the optional fields of text_to_image and the key each is passed under
OptionalFields == {"context", "camera_angle", "lighting", "composition", "negative_prompt"}
KeyOf(field) == IF field = "camera_angle" THEN "angle" ELSE field

\* C19 as claimed: every optional field that is None is substituted as the
\* empty string, and a clause is produced only for a field that is given
C19_OptionalFields_AsClaimed ==
    LastCompose =>
        LET c == Val(last)
        IN \A field \in OptionalFields :
              /\ c[field] = None => c.kwargs[KeyOf(field)] = Some("")
              /\ c.kwargs[KeyOf(field)] # Some("") => c[field] # None

\* C19: camera angle, lighting, composition and negative guidance are
\* substituted as the empty string when None or empty, and as their clause
\* (", using <angle value>", ", with <lighting>", ", and <composition>",
\* ", ensuring <negative guidance>") otherwise; a context that is None or
\* empty is substituted as "image", any other context as itself
C19_OptionalFields ==
    LastCompose =>
        LET c == Val(last)
        IN /\ c.kwargs.context =
                Some(IF c.context = None \/ c.context = Some("")
                     THEN "image" ELSE Val(c.context))
           /\ c.kwargs.angle =
                Some(IF c.camera_angle = None THEN ""
                     ELSE ", using " \o Val(c.camera_angle).value)
           /\ c.kwargs.lighting =
                Some(IF c.lighting = None \/ c.lighting = Some("") THEN ""
                     ELSE ", with " \o Val(c.lighting))
           /\ c.kwargs.composition =
                Some(IF c.composition = None \/ c.composition = Some("") THEN ""
                     ELSE ", and " \o Val(c.composition))
           /\ c.kwargs.negative_prompt =
                Some(IF c.negative_prompt = None \/ c.negative_prompt = Some("")
                     THEN "" ELSE ", ensuring " \o Val(c.negative_prompt))
           /\ (~c.raised /\ "context" \in Placeholders(Val(c.tpl))) =>
                Contains(c.value, Val(c.kwargs.context))

\* a prompt composed without a context and without lighting, with a camera
\* angle, from a template that references the context
C19_Witness ==
    /\ LastCompose /\ ~Val(last).raised
    /\ Val(last).context = None /\ Val(last).lighting = None
    /\ Val(last).camera_angle # None
    /\ "context" \in Placeholders(Val(Val(last).tpl))
    /\ Contains(Val(last).value, "image")

\* C20: when the template references subject, style, context and angle,
\* the prompt text_to_image returns for a subject, a style, a context and a
\* camera angle contains the subject, the value of the style, the context
\* and the value of the camera angle
C20_ContainsFields ==
    LastCompose =>
        LET c == Val(last)
        IN (/\ c.tpl # None
            /\ {"subject", "style", "context", "angle"} \subseteq Placeholders(Val(c.tpl))
            /\ Placeholders(Val(c.tpl)) \subseteq DOMAIN c.kwargs
            /\ Truthy(c.context)
            /\ c.camera_angle # None) =>
                /\ ~c.raised
                /\ Contains(c.value, c.subject)
                /\ Contains(c.value, c.style.value)
                /\ Contains(c.value, Val(c.context))
                /\ Contains(c.value, Val(c.camera_angle).value)

\* the prompt for a cat, photorealistic, close up
C20_Witness ==
    /\ LastCompose /\ ~Val(last).raised
    /\ Val(last).subject = "a cat" /\ Val(last).style = PHOTOREALISTIC
    /\ Val(last).context = Some("poster")
    /\ Val(last).camera_angle = Some(CLOSE_UP)
    /\ Contains(Val(last).value, "close-up shot")
    /\ Contains(Val(last).value, "a cat")

\* --------------------------------------------------- generate_with_template
\* the template the composer of a kind gets: from the loader's cache as it
\* was before the call, else from the file; None if there is neither
TemplateSeen(c, kind) ==
    IF kind \in DOMAIN c.before THEN Some(c.before[kind])
    ELSE IF files[kind] = None THEN None
    ELSE Some(Strip(Val(files[kind])))

\* the keys the composer of a kind passes to format_prompt
KeysPassed(kind) ==
    (Accepted(kind) \ {"camera_angle"}) \cup
    (IF kind = "text_to_image" THEN {"angle"} ELSE {})

\* no prompt can be composed: the template type is unknown, or the
\* parameters are not those of its composer, or the template is not found, or
\* it references a placeholder the composer does not pass
CannotCompose(c) ==
    \/ c.template_type \notin TemplateKinds
    \/ /\ c.template_type \in TemplateKinds
       /\ \/ ~(Required(c.template_type) \subseteq DOMAIN c.kw)
          \/ ~(DOMAIN c.kw \subseteq Accepted(c.template_type))
          \/ TemplateSeen(c, c.template_type) = None
          \/ ~(Placeholders(Val(TemplateSeen(c, c.template_type)))
                   \subseteq KeysPassed(c.template_type))

\* C18: when generate_with_template cannot compose a prompt, or is given
\* no input_image for a template type that needs one, it returns without a
\* single request to the model a dict with success False, the message of
\* the error and the template type as metadata
C18_FailFast ==
    (tw # None /\ pc = "done") =>
        LET c == Val(tw)
        IN (\/ CannotCompose(c)
            \/ RequiresInputImage(c.template_type) /\ c.input_image = None) =>
                /\ calls = <<>>
                /\ written = <<>>
                /\ ret # None
                /\ Val(ret).success = FALSE
                /\ Val(ret).error # ""
                /\ Val(ret).metadata = [type |-> c.template_type]
                /\ CannotCompose(c) <=> c.composed = None
                /\ c.composed # None =>
                      Val(ret).error = "Template '" \o c.template_type
                                          \o "' requires input_image parameter"

\* an inpainting call, given an input image, that failed because the
\* template is not found
C18_Witness ==
    /\ tw # None /\ pc = "done" /\ calls = <<>> /\ ret # None
    /\ Val(tw).template_type = "inpainting"
    /\ Val(tw).input_image # None
    /\ Val(tw).composed = None
    /\ Val(ret).success = FALSE
    /\ Contains(Val(ret).error, "not found")

\* ------------------------------------------------------------ batch_generate
\* the batch in progress or just returned
B == Val(batch)

\* C11: batch_generate returns one result per prompt, the i-th being what
\* the call on the i-th prompt returned, and runs the calls one after
\* another: whenever a call may send a request, it is the call on the
\* prompt that follows the results collected so far, every earlier call
\* has returned and been collected, and the requests made are its own
C11_BatchInOrder ==
    batch # None =>
        /\ Len(B.results) <= Len(B.prompts)
        /\ Len(B.served) = Len(B.results)
        /\ \A i \in 1..Len(B.results) :
              /\ B.served[i].prompt = B.prompts[i]
              /\ B.results[i] = B.served[i].ret
              /\ B.results[i].success => B.results[i].metadata.prompt = B.prompts[i]
        /\ B.returned # None =>
              /\ pc = "idle"
              /\ Val(B.returned) = B.results
              /\ Len(Val(B.returned)) = Len(B.prompts)
        /\ B.returned = None =>
              /\ pc \in {"primary", "fallback", "done"}
              /\ prompt = B.prompts[Len(B.results) + 1]
              /\ op.output_filename =
                    Some(BatchFilename(B.output_prefix, Len(B.results)))
              /\ op.save_image
              /\ calls # <<>> => calls[1].contents = <<Text(prompt)>>

\* a batch of two prompts has returned a failure for the first and an image
\* for the second
C11_Witness ==
    /\ batch # None
    /\ B.returned # None
    /\ Len(B.prompts) = 2
    /\ B.prompts[1] # B.prompts[2]
    /\ ~Val(B.returned)[1].success
    /\ Val(B.returned)[2].success
    /\ Val(B.returned)[2].metadata.prompt = B.prompts[2]

\* ------------------------------------- the clean_room and step_by_step composers
LastClean == last # None /\ Val(last).kind = "clean_room"

\* C21: clean_room passes as remove_instruction "Remove the <objects>" when
\* specific_objects is given (and not empty) and the clutter sentence
\* otherwise, and as maintain_layout the layout clause when maintain_layout
\* is true and nothing otherwise; a template that puts the two side by
\* side yields the instruction followed by the clause
C21_CleanRoomInstruction ==
    LastClean =>
        LET c == Val(last)
            given == c.specific_objects # None /\ c.specific_objects # Some("")
            instruction ==
                IF given THEN "Remove the " \o Val(c.specific_objects)
                ELSE "Clean up this room by removing all clutter and unnecessary objects"
            clause ==
                IF c.maintain_layout
                THEN " while maintaining the original room layout and structure"
                ELSE ""
        IN /\ c.kwargs.remove_instruction = Some(instruction)
           /\ c.kwargs.maintain_layout = Some(clause)
           /\ (c.tpl # None /\ Placeholders(Val(c.tpl)) \subseteq DOMAIN c.kwargs) =>
                /\ ~c.raised
                /\ c.value = "Task: " \o instruction \o clause \o "."

\* the prompt for a room without named objects, layout kept
C21_Witness ==
    /\ LastClean /\ ~Val(last).raised
    /\ Val(last).specific_objects = None /\ Val(last).maintain_layout
    /\ Contains(Val(last).value,
                "Clean up this room by removing all clutter and unnecessary objects while maintaining the original room layout and structure")

LastSteps == last # None /\ Val(last).kind = "step_by_step"

\* the first position of sub in s, 0 if there is none
IndexOf(s, sub) ==
    LET at == { i \in 1..(Len(s) - Len(sub) + 1) : SubSeq(s, i, i + Len(sub) - 1) = sub }
    IN IF at = {} THEN 0 ELSE CHOOSE i \in at : \A j \in at : i <= j

\* the item of step i as the claim words it
Item(c, i) == "Step " \o Str(i) \o ": " \o c.steps[i]

\* C22: the single field steps holds the items "Step <i>: <text>" for
\* i = 1..N in input order with one space between neighbours and nothing
\* else: item 1 starts the text, each item i+1 starts one space after the
\* end of item i, the last item ends the text, and an empty list gives ""
C22_StepsInOrder ==
    LastSteps =>
        LET c == Val(last)
            text == Val(c.kwargs.steps)
            N == Len(c.steps)
            start == [i \in 1..N |-> IndexOf(text, Item(c, i))]
        IN /\ DOMAIN c.kwargs = {"steps"}
           /\ N = 0 => text = ""
           /\ N > 0 => start[1] = 1
           /\ \A i \in 1..N : SubSeq(text, start[i], start[i] + Len(Item(c, i)) - 1) = Item(c, i)
           /\ \A i \in 1..(N - 1) :
                 /\ start[i + 1] = start[i] + Len(Item(c, i)) + 1
                 /\ SubSeq(text, start[i + 1] - 1, start[i + 1] - 1) = " "
           /\ \A i, j \in 1..N : i < j => start[i] < start[j]
           /\ N > 0 => Len(text) = start[N] + Len(Item(c, N)) - 1
           /\ (c.tpl # None /\ ~c.raised) => Contains(c.value, text)

\* three steps composed into a prompt
C22_Witness ==
    /\ LastSteps /\ ~Val(last).raised
    /\ Len(Val(last).steps) = 3
    /\ Contains(Val(last).value, "Step 1: mix Step 2: bake Step 3: serve")

\* --------------------------------------------- listing the resource directory
LastList == last # None /\ Val(last).kind = "list"

\* C23: list_available_prompts does not raise; when the resource directory
\* does not exist it returns the empty list, otherwise the names of the
\* files present, each once; the loader's cache is after the call what it
\* was before
C23_ListAvailable ==
    LastList =>
        LET c == Val(last)
        IN /\ ~c.raised
           /\ ~c.dir => c.value = <<>>
           /\ { c.value[i] : i \in 1..Len(c.value) } = c.present
           /\ Len(c.value) = Cardinality(c.present)
           /\ caches[c.loader] = c.before

\* the directory was removed after a template was loaded: the list is
\* empty and the cache still holds the template
C23_Witness ==
    /\ LastList
    /\ ~Val(last).dir
    /\ Val(last).value = <<>>
    /\ DOMAIN caches[Val(last).loader] # {}

\* ------------------------------------------- concurrent calls on one loader
\* the step just taken is not a clear of the cache
NoClearStep == last' # None /\ Val(last').kind = "thread" /\ Val(last').step # "clear"

\* thread t finishes, in this step, a load of a name whose file exists
Finishes(t) ==
    /\ threads[t].pc # "done"
    /\ threads'[t].pc = "done"
    /\ files[threads[t].name] # None

C30_LoadSurvivesClear ==
    \A t \in Threads :
        (threads[t].pc = "done" /\ files[threads[t].name] # None) =>
            threads[t].out =
               Some(Outcome3(FALSE, "", Strip(Val(files[threads[t].name]))))

\* --------------------------------------------------- writes of one call
\* the path a call saves to
OutputPath == "outputs/" \o OrElse(op.output_filename, DefaultFilename(op.flow)) \o ".png"

\* C25 as claimed: a call writes its output path at most once
C25_WriteOnce_AsClaimed == Len(written) <= 1

\* C25: every write of a call goes to the call's one output path; a call
\* that does not save writes nothing; the primary response is saved once
\* for each of its image parts, in order, up to the first one that cannot
\* be decoded; and when the primary response has no image, at most one
\* write is made, of the first image part of the last fallback response
C25_WritesPerImagePart ==
    /\ \A i \in 1..Len(written) : written[i].path = OutputPath
    /\ (calls = <<>> \/ ~op.save_image) => written = <<>>
    /\ (calls # <<>> /\ op.save_image) =>
          LET imgs == calls[1].images
              n == Len(written)
          IN IF imgs # <<>>
             THEN /\ Len(calls) = 1
                  /\ n <= Len(imgs)
                  /\ \A i \in 1..n : written[i].data = imgs[i]
                  /\ n < Len(imgs) => imgs[n + 1] \in Undecodable
             ELSE /\ n <= 1
                  /\ n = 1 => /\ Len(calls) > 1
                              /\ LastCall.images # <<>>
                              /\ written[1].data = LastCall.images[1]

\* a primary response with two image parts has been saved twice to the
\* same path, and the call returned the second image
C25_Witness ==
    /\ pc = "done"
    /\ Len(calls) = 1
    /\ Len(written) = 2
    /\ written[1].path = written[2].path
    /\ written[1].data # written[2].data
    /\ R.success
    /\ R.image_data = Some(written[2].data)
    /\ R.image_path = written[2].path

\* ------------------------------------------------ what makes a call fail
\* the primary request itself raised
PrimaryRaised == calls # <<>> /\ calls[1].kind = "raise"

\* C26 as claimed: a call fails exactly when its primary request raised
C26_FailsIffPrimaryRaised_AsClaimed ==
    pc = "done" => (~R.success <=> PrimaryRaised)

\* C26: a call returns success=false exactly when an exception was raised
\* before any request was made (loading an input image, composing the
\* prompt), by the primary request, while reading the parts of the primary
\* response, or while saving an image of the primary response; every other
\* call, whatever its fallback requests did, returns success=true
C26_FailureCauses ==
    pc = "done" =>
        (~R.success <=>
            \/ calls = <<>>
            \/ /\ Len(calls) = 1
               /\ \/ calls[1].kind \in {"raise", "unreadable"}
                  \/ calls[1].save_raised)

\* a call failed without making a request: its input image could not be
\* loaded
C26_Witness ==
    /\ pc = "done"
    /\ ~R.success
    /\ calls = <<>>
    /\ op.flow = EDIT
    /\ R.metadata.type = EDIT

\* -------------------------------------------- exceptions and the caller
\* an exception reached the outer `except` of the operation
OuterRaised ==
    \/ calls = <<>>
    \/ /\ Len(calls) = 1
       /\ \/ calls[1].kind \in {"raise", "unreadable"}
          \/ calls[1].save_raised

\* C27 as claimed: a call in which an exception was raised while loading
\* the input, composing the prompt, calling the model, reading the primary
\* response or saving returns success=false
C27_AnyExceptionFails_AsClaimed ==
    pc = "done" =>
        /\ ret # None
        /\ ( \/ calls = <<>>
             \/ \E i \in 1..Len(calls) : calls[i].kind = "raise" \/ calls[i].save_raised
             \/ calls[1].kind = "unreadable" ) => ~R.success

\* C27: each of the five operations returns a result to its caller.  An
\* exception raised before the primary request, by it, while reading its
\* response or while saving one of its images gives a result with
\* success=false, the error string and metadata carrying the request type;
\* an exception inside a fallback step is absorbed and the result has
\* success=true
C27_NoPropagation ==
    pc = "done" =>
        /\ ret # None
        /\ "success" \in DOMAIN R
        /\ OuterRaised =>
              /\ ~R.success
              /\ DOMAIN R = {"success", "error", "metadata"}
              /\ R.error # ""
              /\ R.metadata = [type |-> op.flow]
              /\ (calls # <<>> /\ calls[1].kind # "parts") => R.error = calls[1].error
        /\ ~OuterRaised => R.success /\ ret = result

\* generate_with_template composed the prompt of a template that needs an
\* input image, was given none, and returned the failure
C27_Witness ==
    /\ pc = "done"
    /\ tw # None
    /\ ~Direct
    /\ Val(tw).composed # None
    /\ RequiresInputImage(Val(tw).template_type)
    /\ Val(tw).input_image = None
    /\ ~R.success
    /\ R.metadata.type = Val(tw).template_type

\* ------------------------------------------- what a fallback step changes
\* the keys of the result a fallback step may set
FallbackKeys == {"image_data", "image_path"}

\* C28: a fallback step leaves every key of the result other than
\* image_data and image_path as it was after the primary attempt
\* (text_content and the whole metadata included), adds no key other than
\* image_path, keeps metadata.prompt equal to the prompt of the call, and
\* the call returns that result
C28_FallbackFrame ==
    [][ pc = "fallback" =>
          /\ result' # None
          /\ \A key \in DOMAIN Val(result) \ FallbackKeys :
                key \in DOMAIN Val(result') /\ Val(result')[key] = Val(result)[key]
          /\ DOMAIN Val(result') \ DOMAIN Val(result) \subseteq {"image_path"}
          /\ Val(result').metadata.prompt = prompt
          /\ pc' = "done" => ret' = result' ]_vars

\* the image came from the second fallback step, sent with a rewritten
\* prompt; the result has the text of the primary response and the prompt
\* of the call
C28_Witness ==
    /\ pc = "done"
    /\ Len(calls) = 3
    /\ R.success
    /\ R.image_data # None
    /\ R.text_content = Some("Here is your image.")
    /\ R.metadata.prompt = prompt
    /\ calls[3].contents # calls[1].contents

\* -------------------------------------------- the batch and its names
\* the name of the entry at position n (counted from 1) of a batch of
\* fewer than ten prompts
EntryName(output_prefix, n) == output_prefix \o "_00" \o Str(n)

\* C29: the calls of a batch made so far ran on the first prompts of the
\* list, one each and in order, whatever the earlier calls returned; the
\* batch returns only when every prompt has had its call; the call for
\* the entry at index i was given the name <output_prefix>_<i+1 as three
\* digits>, wrote nowhere but outputs/<that name>.png, and the names of
\* two entries differ
C29_BatchAttemptsAll ==
    batch # None =>
        LET b == Val(batch)
            n == Len(b.served)
        IN /\ n <= Len(b.prompts)
           /\ Len(b.results) = n
           /\ \A i \in 1..n :
                 /\ b.served[i].prompt = b.prompts[i]
                 /\ b.served[i].filename = Some(EntryName(b.output_prefix, i))
                 /\ \A j \in 1..Len(b.served[i].written) :
                       b.served[i].written[j].path =
                          "outputs/" \o EntryName(b.output_prefix, i) \o ".png"
                 /\ "image_path" \in DOMAIN b.served[i].ret =>
                       b.served[i].ret.image_path =
                          "outputs/" \o EntryName(b.output_prefix, i) \o ".png"
           /\ \A i, j \in 1..n :
                 i # j => b.served[i].filename # b.served[j].filename
           /\ IF b.returned = None
              THEN /\ n < Len(b.prompts)
                   /\ pc # "idle"
                   /\ prompt = b.prompts[n + 1]
                   /\ op.output_filename = Some(EntryName(b.output_prefix, n + 1))
              ELSE n = Len(b.prompts)

\* a batch of two prompts has returned: the first call failed, the second
\* saved its image under the second name
C29_Witness ==
    /\ batch # None
    /\ Val(batch).returned # None
    /\ Len(Val(batch).prompts) = 2
    /\ Len(Val(batch).served) = 2
    /\ ~Val(batch).served[1].ret.success
    /\ Val(batch).served[2].ret.success
    /\ Val(batch).served[2].written # <<>>
    /\ Val(batch).served[2].written[1].path =
          "outputs/" \o Val(batch).output_prefix \o "_002.png"

====
